---- MODULE Spec2Model ----
(***************************************************************************)
(* Vector indexing, retrieval and chunking engine of EnzoMH/newera:        *)
(* FaissManager (app/vecdb/faiss_manager.py), EmbeddingService             *)
(* (app/vecdb/embedding_service.py), LocalJSONStorage                      *)
(* (app/vecdb/local_storage.py), MongoDBClient (app/vecdb/mongodb_client.py),*)
(* RAGRetriever (app/vecdb/retriever.py), recommend_index_type             *)
(* (app/vecdb/faiss_factory.py), the build scripts                         *)
(* (scripts/build_vectordb_local.py, scripts/build_vectordb.py), the       *)
(* server start-up (rag_main.py) and HybridAgenticChunker                  *)
(* (app/vecdb/hybrid_agentic_chunker.py).                                  *)
(***************************************************************************)
EXTENDS Integers, Sequences, FiniteSets, TLC

(***************************************************************************)
(* Bounds of the model.                                                    *)
(***************************************************************************)
MaxVectors == 2
MaxBatch == 2
MaxK == 2
MaxChunks == 2
MaxDocs == 3
\* The scripts' batch size (50 in the scripts), scaled to the model's corpus.
batch_size == 1
Delta == 8
MaxCalls == 2
MaxParas == 2
MaxFrags == 2
MaxLines == 3
MaxCorpus == 4

\* The least length _parse_llm_response keeps is above parse_min, the least
\* _fallback_chunking keeps above fallback_min.
parse_min == 50
fallback_min == 100

\* Embedding dimensions a manager or a vector batch may have.
Dims == {1, 2}
\* Coordinate values of the sample vectors.
Coords == {0, 1}

\* The sample vectors of dimension d: all components equal.
Vectors(d) == {[i \in 1..d |-> c] : c \in Coords}

\* The (n, d) arrays add_vectors may receive: 1..MaxBatch rows of dimension d.
Batches(d) == UNION {[1..n -> Vectors(d)] : n \in 1..MaxBatch}

\* No snapshot file at the index path.
NoFile == [d |-> 0, vecs |-> <<>>, exists |-> FALSE]

VARIABLES
    dimension,      \* FaissManager.dimension
    use_gpu,        \* FaissManager.use_gpu
    index,          \* FaissManager.index: [d, vecs, gpu]; vecs[i+1] is ordinal i
    total_vectors,  \* FaissManager.total_vectors
    faiss_file,     \* the snapshot file at the index path, NoFile when absent
    saved,          \* history: the manager as it was at the last successful save
    documents,      \* LocalJSONStorage.documents: the content sequence
    metadatas,      \* LocalJSONStorage.metadatas: the fields sequence
    documents_file, \* documents.json in the storage directory
    metadata_file,  \* metadata.json in the storage directory
    default_file,   \* the snapshot file at FAISS_INDEX_PATH (MongoDB build)
    collection,     \* the MongoDB collection, in insertion order
    store_kind,     \* which metadata store the server's retriever holds
    chunk_dir,      \* the chunk files in data/chunks, as (content, domain) pairs
    pc,             \* where the running script or server is
    chunks,         \* build script: the chunks load_chunks returned
    batch_idx,      \* build script: the batch to process next
    all_documents,  \* build script: the chunks indexed so far
    backend,        \* HybridAgenticChunker.backend
    local_llm,      \* HybridAgenticChunker.local_llm is loaded
    gemini_model,   \* HybridAgenticChunker.gemini_model is set
    stats,          \* HybridAgenticChunker.stats
    stage,          \* where the running chunk_text call is
    text,           \* the text of the running chunk_text call
    invoked,        \* history: the backends this call invoked, with what each returned
    n_calls,        \* history: the chunk_text calls made
    op,             \* the last call made: its name and the shape of its input
    res,            \* its outcome: "ok" or the exception raised
    out             \* its return value

faissVars == <<dimension, use_gpu, index, total_vectors, faiss_file, saved>>
storeVars == <<documents, metadatas, documents_file, metadata_file>>
mongoVars == <<default_file, collection>>
buildVars == <<pc, chunks, batch_idx, all_documents>>
hybridVars == <<backend, local_llm, gemini_model, stats, stage, text, invoked, n_calls>>
callVars == <<op, res, out>>

(***************************************************************************)
(* FaissManager                                                            *)
(***************************************************************************)

\* faiss.IndexHNSWFlat(dimension, m): an empty CPU index.
IndexHNSWFlat(d) == [d |-> d, vecs |-> <<>>, gpu |-> FALSE]

\* faiss.index_cpu_to_gpu: the same contents, GPU-resident.
index_cpu_to_gpu(cpu_index) == [cpu_index EXCEPT !.gpu = TRUE]

\* faiss.index_gpu_to_cpu: the same contents, CPU-resident (a CPU index is cloned).
index_gpu_to_cpu(ix) == [ix EXCEPT !.gpu = FALSE]

\* A faulty variant of FaissManager__create_index: a GPU failure is not caught.
FaissManager__create_index_GpuFatal(d, want_gpu, gpu_ok) ==
    IF want_gpu /\ ~gpu_ok
    THEN [index |-> IndexHNSWFlat(d), use_gpu |-> TRUE, res |-> "RuntimeError"]
    ELSE [index |-> IF want_gpu THEN index_cpu_to_gpu(IndexHNSWFlat(d)) ELSE IndexHNSWFlat(d),
          use_gpu |-> want_gpu, res |-> "ok"]

\* FaissManager._create_index: gpu_ok says whether StandardGpuResources exists and
\* the transfer succeeds; on failure use_gpu is cleared and the CPU index returned.
FaissManager__create_index(d, want_gpu, gpu_ok) ==
    LET cpu_index == IndexHNSWFlat(d) IN
    IF want_gpu
    THEN IF gpu_ok
         THEN [index |-> index_cpu_to_gpu(cpu_index), use_gpu |-> TRUE, res |-> "ok"]
         ELSE [index |-> cpu_index, use_gpu |-> FALSE, res |-> "ok"]
    ELSE [index |-> cpu_index, use_gpu |-> FALSE, res |-> "ok"]

\* faiss Index.add: asserts the row dimension, then appends the rows in order.
Index_add(ix, vectors) ==
    IF Len(vectors[1]) # ix.d
    THEN [index |-> ix, res |-> "AssertionError"]
    ELSE [index |-> [ix EXCEPT !.vecs = ix.vecs \o vectors], res |-> "ok"]

\* A faulty variant of FaissManager_add_vectors: the rows are added before the dimension
\* is checked.
FaissManager_add_vectors_AddFirst(dim, ix, total, vectors, n_meta) ==
    IF Len(vectors) # n_meta
    THEN [index |-> ix, total_vectors |-> total, res |-> "ValueError(count)"]
    ELSE IF Len(vectors[1]) # dim
         THEN [index |-> [ix EXCEPT !.vecs = ix.vecs \o vectors],
               total_vectors |-> total, res |-> "ValueError(dimension)"]
         ELSE [index |-> [ix EXCEPT !.vecs = ix.vecs \o vectors],
               total_vectors |-> total + Len(vectors), res |-> "ok"]

\* A faulty variant of FaissManager_add_vectors: the new rows are put in front.
FaissManager_add_vectors_Prepend(dim, ix, total, vectors, n_meta) ==
    IF Len(vectors) # n_meta
    THEN [index |-> ix, total_vectors |-> total, res |-> "ValueError(count)"]
    ELSE IF Len(vectors[1]) # dim
    THEN [index |-> ix, total_vectors |-> total, res |-> "ValueError(dimension)"]
    ELSE [index |-> [ix EXCEPT !.vecs = vectors \o ix.vecs],
          total_vectors |-> total + Len(vectors), res |-> "ok"]

\* FaissManager.add_vectors(vectors, metadatas); n_meta is len(metadatas).
FaissManager_add_vectors(dim, ix, total, vectors, n_meta) ==
    IF Len(vectors) # n_meta
    THEN [index |-> ix, total_vectors |-> total, res |-> "ValueError(count)"]
    ELSE IF Len(vectors[1]) # dim
         THEN [index |-> ix, total_vectors |-> total, res |-> "ValueError(dimension)"]
         ELSE LET added == Index_add(ix, vectors) IN
              IF added.res # "ok"
              THEN [index |-> ix, total_vectors |-> total, res |-> added.res]
              ELSE [index |-> added.index,
                    total_vectors |-> total + Len(vectors), res |-> "ok"]

\* Squared L2 distance, the metric of IndexHNSWFlat.
RECURSIVE SumSq(_, _, _)
SumSq(q, v, i) ==
    IF i = 0 THEN 0 ELSE (q[i] - v[i]) * (q[i] - v[i]) + SumSq(q, v, i - 1)

L2(q, v) == SumSq(q, v, Len(q))

\* The ordinal (0-based) nearest to q among those in left: smallest distance,
\* then smallest ordinal.
Nearest(vecs, q, left) ==
    CHOOSE o \in left :
        \A p \in left :
            \/ L2(q, vecs[o + 1]) < L2(q, vecs[p + 1])
            \/ (L2(q, vecs[o + 1]) = L2(q, vecs[p + 1]) /\ o <= p)

\* faiss Index.search for one query: k slots, nearest first, unfilled slots
\* carry ordinal -1.
RECURSIVE Index_search_slots(_, _, _, _)
Index_search_slots(vecs, q, k, left) ==
    IF k = 0 THEN <<>>
    ELSE IF left = {}
         THEN <<[distance |-> -1, ordinal |-> -1]>>
                  \o Index_search_slots(vecs, q, k - 1, left)
         ELSE LET o == Nearest(vecs, q, left) IN
              <<[distance |-> L2(q, vecs[o + 1]), ordinal |-> o]>>
                  \o Index_search_slots(vecs, q, k - 1, left \ {o})

Index_search(ix, q, k) ==
    IF Len(q) # ix.d
    THEN [res |-> "AssertionError", out |-> <<>>]
    ELSE [res |-> "ok",
          out |-> Index_search_slots(ix.vecs, q, k, 0..(Len(ix.vecs) - 1))]

\* FaissManager.search(query_vector, top_k) -> (distances, indices), here one
\* sequence of (distance, ordinal) slots.
FaissManager_search(dim, ix, q, k) ==
    IF Len(q) # dim
    THEN [res |-> "ValueError(dimension)", out |-> <<>>]
    ELSE Index_search(ix, q, k)

\* faiss.write_index / faiss.read_index: the snapshot keeps the dimension and the
\* rows in ordinal order; it is always a CPU index.
write_index(cpu_index) == [d |-> cpu_index.d, vecs |-> cpu_index.vecs, exists |-> TRUE]
read_index(file) == [d |-> file.d, vecs |-> file.vecs, gpu |-> FALSE]

\* A faulty variant of FaissManager_save: the snapshot loses the last row.
FaissManager_save_Truncating(gpu_flag, ix, file, conv_ok) ==
    [file |-> [d |-> ix.d,
               vecs |-> IF ix.vecs = <<>> THEN <<>> ELSE SubSeq(ix.vecs, 1, Len(ix.vecs) - 1),
               exists |-> TRUE],
     res |-> "ok"]

\* FaissManager.save(path); conv_ok says whether the GPU-to-CPU conversion of a
\* GPU-resident index succeeds.
FaissManager_save(gpu_flag, ix, file, conv_ok) ==
    IF gpu_flag
    THEN IF ix.gpu /\ ~conv_ok
         THEN [file |-> file, res |-> "RuntimeError"]
         ELSE [file |-> write_index(index_gpu_to_cpu(ix)), res |-> "ok"]
    ELSE [file |-> write_index(ix), res |-> "ok"]

\* A faulty variant of FaissManager_load: a missing file empties the manager
\* before the error is raised.
FaissManager_load_ClearsOnMissing(gpu_flag, ix, total, file, gpu_ok) ==
    IF ~file.exists
    THEN [index |-> [ix EXCEPT !.vecs = <<>>], total_vectors |-> 0,
          res |-> "FileNotFoundError"]
    ELSE LET cpu_index == read_index(file)
             loaded == IF gpu_flag
                       THEN IF gpu_ok THEN index_cpu_to_gpu(cpu_index) ELSE cpu_index
                       ELSE cpu_index
         IN [index |-> loaded, total_vectors |-> Len(loaded.vecs), res |-> "ok"]

\* FaissManager.load(path); gpu_ok says whether the GPU can be acquired and the
\* index transferred. self.dimension and self.use_gpu are not assigned.
FaissManager_load(gpu_flag, ix, total, file, gpu_ok) ==
    IF ~file.exists
    THEN [index |-> ix, total_vectors |-> total, res |-> "FileNotFoundError"]
    ELSE LET cpu_index == read_index(file)
             loaded == IF gpu_flag
                       THEN IF gpu_ok THEN index_cpu_to_gpu(cpu_index) ELSE cpu_index
                       ELSE cpu_index
         IN [index |-> loaded, total_vectors |-> Len(loaded.vecs), res |-> "ok"]

(***************************************************************************)
(* EmbeddingService                                                        *)
(***************************************************************************)

\* The texts of the model (chunk contents and queries) and the vector the
\* embedding model gives each.
Texts == {"a", "b"}
Embedding == [a |-> <<0>>, b |-> <<1>>]

\* EmbeddingService.embed_query on a working model.
embed_query(a_text) == Embedding[a_text]

\* EmbeddingService.embed_documents on a working model: one row per text.
embed_documents(texts) == [i \in 1..Len(texts) |-> Embedding[texts[i]]]

\* EmbeddingService.get_dimension: the length of a test embedding.
get_dimension == Len(Embedding["a"])

\* np.zeros(d).
Zeros(d) == [i \in 1..d |-> 0]

\* EmbeddingService.embed_query(text): model_ok tells whether the model call
\* returns; any Exception it raises is logged and replaced by np.zeros(_dimension).
EmbeddingService_embed_query(a_text, model_ok) ==
    IF model_ok THEN [res |-> "ok", out |-> embed_query(a_text)]
    ELSE [res |-> "ok", out |-> Zeros(get_dimension)]

\* A faulty variant of EmbeddingService_embed_documents: the exception of the
\* model call is raised again.
EmbeddingService_embed_documents_Propagating(texts, model_ok) ==
    IF model_ok THEN [res |-> "ok", out |-> embed_documents(texts)]
    ELSE [res |-> "RuntimeError", out |-> <<>>]

\* EmbeddingService.embed_documents(texts): any Exception of the model call is
\* logged and replaced by np.zeros((len(texts), _dimension)).
EmbeddingService_embed_documents(texts, model_ok) ==
    IF model_ok THEN [res |-> "ok", out |-> embed_documents(texts)]
    ELSE [res |-> "ok", out |-> [i \in 1..Len(texts) |-> Zeros(get_dimension)]]

\* The text lists embed_documents may receive.
TextLists == UNION {[1..n -> Texts] : n \in 0..MaxBatch}

(***************************************************************************)
(* LocalJSONStorage                                                        *)
(***************************************************************************)

Domains == {"X", "Y"}

\* A file of the storage directory that does not exist.
NoJson == [exists |-> FALSE, data |-> <<>>, torn |-> FALSE]

\* A file opened for writing whose json.dump did not finish: no JSON document.
TornJson == [exists |-> TRUE, data |-> <<>>, torn |-> TRUE]

\* LocalJSONStorage._load_data: each sequence is read from its file if it exists.
LocalJSONStorage__load_data(docs_file, meta_file) ==
    [documents |-> IF docs_file.exists THEN docs_file.data ELSE <<>>,
     metadatas |-> IF meta_file.exists THEN meta_file.data ELSE <<>>]

\* LocalJSONStorage._save_data: both sequences are written.
LocalJSONStorage__save_data(docs, metas) ==
    [documents_file |-> [exists |-> TRUE, data |-> docs, torn |-> FALSE],
     metadata_file |-> [exists |-> TRUE, data |-> metas, torn |-> FALSE]]

\* Where the process can die inside _save_data: while documents.json is being
\* written, after it is closed and before metadata.json is opened, or while
\* metadata.json is being written.
CrashPoints == {"in_documents", "between", "in_metadata"}

\* LocalJSONStorage._save_data cut short at a crash point: what the two files
\* hold afterwards.
LocalJSONStorage__save_data_interrupted(docs, metas, docs_file, meta_file, point) ==
    [documents_file |-> IF point = "in_documents" THEN TornJson
                        ELSE [exists |-> TRUE, data |-> docs, torn |-> FALSE],
     metadata_file |-> IF point = "in_metadata" THEN TornJson ELSE meta_file]

\* A faulty variant of LocalJSONStorage_insert_loop: each record is put in front.
RECURSIVE LocalJSONStorage_insert_loop_Prepending(_, _, _, _)
LocalJSONStorage_insert_loop_Prepending(docs, metas, ids, records) ==
    IF records = <<>>
    THEN [documents |-> docs, metadatas |-> metas, ids |-> ids]
    ELSE LET doc == Head(records)
             doc_id == Len(docs)
             metadata == [id |-> doc_id, chunk_id |-> doc.chunk_id, domain |-> doc.domain]
         IN LocalJSONStorage_insert_loop_Prepending(<<doc.content>> \o docs,
                                                    <<metadata>> \o metas,
                                                    Append(ids, doc_id), Tail(records))

\* LocalJSONStorage.insert_many: the loop appending the content and the fields of
\* each record; doc_id is doc_<len(documents)>, here the number.
RECURSIVE LocalJSONStorage_insert_loop(_, _, _, _)
LocalJSONStorage_insert_loop(docs, metas, ids, records) ==
    IF records = <<>>
    THEN [documents |-> docs, metadatas |-> metas, ids |-> ids]
    ELSE LET doc == Head(records)
             doc_id == Len(docs)
             metadata == [id |-> doc_id, chunk_id |-> doc.chunk_id, domain |-> doc.domain]
         IN LocalJSONStorage_insert_loop(Append(docs, doc.content), Append(metas, metadata),
                                         Append(ids, doc_id), Tail(records))

\* LocalJSONStorage.insert_many(documents) -> ids.
LocalJSONStorage_insert_many(docs, metas, records) ==
    LocalJSONStorage_insert_loop(docs, metas, <<>>, records)

\* The record find_by_indices builds: the content and, when the fields sequence
\* reaches that far, the fields.
Doc(content, has_meta, metadata) ==
    [content |-> content, has_meta |-> has_meta,
     chunk_id |-> IF has_meta THEN metadata.chunk_id ELSE -1,
     domain |-> IF has_meta THEN metadata.domain ELSE ""]

\* A faulty variant of LocalJSONStorage_find_by_indices: a negative ordinal counts
\* from the end, as a bare list subscript does.
RECURSIVE LocalJSONStorage_find_by_indices_NegativeWraps(_, _, _)
LocalJSONStorage_find_by_indices_NegativeWraps(docs, metas, indices) ==
    IF indices = <<>> THEN <<>>
    ELSE LET raw == Head(indices)
             idx == IF raw < 0 THEN Len(docs) + raw ELSE raw
             rest == LocalJSONStorage_find_by_indices_NegativeWraps(docs, metas, Tail(indices))
         IN IF 0 <= idx /\ idx < Len(docs)
            THEN <<Doc(docs[idx + 1], idx < Len(metas),
                       IF idx < Len(metas) THEN metas[idx + 1] ELSE <<>>)>> \o rest
            ELSE rest

\* LocalJSONStorage.find_by_indices(indices): ordinals are 0-based.
RECURSIVE LocalJSONStorage_find_by_indices(_, _, _)
LocalJSONStorage_find_by_indices(docs, metas, indices) ==
    IF indices = <<>> THEN <<>>
    ELSE LET idx == Head(indices)
             rest == LocalJSONStorage_find_by_indices(docs, metas, Tail(indices))
         IN IF 0 <= idx /\ idx < Len(docs)
            THEN <<Doc(docs[idx + 1], idx < Len(metas),
                       IF idx < Len(metas) THEN metas[idx + 1] ELSE <<>>)>> \o rest
            ELSE rest

\* LocalJSONStorage.count.
LocalJSONStorage_count(docs) == Len(docs)

\* dict.update(update_data) on a metadata entry: every key of update_data takes
\* its value.
Updated(meta, update_data) ==
    [id |-> IF "id" \in DOMAIN update_data THEN update_data.id ELSE meta.id,
     chunk_id |-> IF "chunk_id" \in DOMAIN update_data THEN update_data.chunk_id
                  ELSE meta.chunk_id,
     domain |-> IF "domain" \in DOMAIN update_data THEN update_data.domain ELSE meta.domain]

\* LocalJSONStorage.update_one(doc_id, update_data): the first metadata entry
\* with that id is updated; found tells whether there was one (and so whether
\* _save_data ran).
LocalJSONStorage_update_one(metas, doc_id, update_data) ==
    LET hits == {i \in 1..Len(metas) : metas[i].id = doc_id} IN
    IF hits = {} THEN [metadatas |-> metas, found |-> FALSE]
    ELSE LET i == CHOOSE h \in hits : \A g \in hits : h <= g
         IN [metadatas |-> [metas EXCEPT ![i] = Updated(@, update_data)], found |-> TRUE]

\* The dictionaries update_one is called with: a new domain, or a new id.
Patches ==
    {[domain |-> d] : d \in Domains} \cup {[id |-> k] : k \in 0..(MaxDocs - 1)}

\* The records, the record batches and the ordinal lists the store is called with.
\* Ordinals run from one below the first position to one past the last.
StoreRecords == [chunk_id : {0}, content : Texts, domain : {"X"}]
StoreBatches == UNION {[1..n -> StoreRecords] : n \in 0..MaxBatch}
OrdinalLists(count) == UNION {[1..n -> -1..count] : n \in 0..MaxK}

(***************************************************************************)
(* MongoDBClient                                                           *)
(***************************************************************************)

\* MongoDBClient.find_by_chunk_ids: the documents of the collection whose chunk_id
\* is asked for.
RECURSIVE MongoDBClient_find_by_chunk_ids(_, _)
MongoDBClient_find_by_chunk_ids(coll, chunk_ids) ==
    IF coll = <<>> THEN <<>>
    ELSE LET d == Head(coll)
             rest == MongoDBClient_find_by_chunk_ids(Tail(coll), chunk_ids)
         IN IF \E j \in 1..Len(chunk_ids) : chunk_ids[j] = d.chunk_id
            THEN <<Doc(d.content, TRUE, d)>> \o rest
            ELSE rest

\* The unique index on chunk_id: insert_many(ordered=False) inserts, in order,
\* every document whose chunk_id is not in the collection yet.
RECURSIVE MongoDBClient_insert_unordered(_, _)
MongoDBClient_insert_unordered(coll, docs) ==
    IF docs = <<>> THEN coll
    ELSE LET d == Head(docs)
             dup == \E j \in 1..Len(coll) : coll[j].chunk_id = d.chunk_id
         IN MongoDBClient_insert_unordered(IF dup THEN coll ELSE Append(coll, d), Tail(docs))

\* MongoDBClient.insert_many(documents) -> ids; mongo_ok says whether the server
\* answers. A PyMongoError (server down, duplicate key) is logged and [] returned.
MongoDBClient_insert_many(coll, docs, mongo_ok) ==
    IF docs = <<>> THEN [collection |-> coll, ids |-> <<>>]
    ELSE IF ~mongo_ok THEN [collection |-> coll, ids |-> <<>>]
    ELSE LET grown == MongoDBClient_insert_unordered(coll, docs)
         IN [collection |-> grown,
             ids |-> IF Len(grown) = Len(coll) + Len(docs)
                     THEN [i \in 1..Len(docs) |-> Len(coll) + i - 1]
                     ELSE <<>>]

(***************************************************************************)
(* RAGRetriever                                                            *)
(***************************************************************************)

\* The metadata store a retriever holds.
LocalStore(docs, metas) ==
    [kind |-> "local", documents |-> docs, metadatas |-> metas, collection |-> <<>>]
MongoStore(coll) ==
    [kind |-> "mongo", documents |-> <<>>, metadatas |-> <<>>, collection |-> coll]

\* No domain filter (None, or the empty string, which Python also takes as false).
NoFilter == ""

\* indices[indices >= 0]: the ordinals of the filled slots, in slot order.
ValidIndices(slots) ==
    LET filled == SelectSeq(slots, LAMBDA s : s.ordinal >= 0)
    IN [i \in 1..Len(filled) |-> filled[i].ordinal]

\* One result of retrieve; the score 1 / (1 + distance) is kept as a fraction.
Result(doc, chunk_id, distance) ==
    [content |-> doc.content, chunk_id |-> chunk_id, domain |-> doc.domain,
     score |-> <<1, 1 + distance>>, distance |-> distance]

\* A faulty variant of RAGRetriever_passes_filter: the filter is not applied.
RAGRetriever_passes_filter_Ignored(doc, filter_domain) == TRUE

\* retrieve's filter test: with a filter set, a document of another domain (or
\* of none) is skipped.
RAGRetriever_passes_filter(doc, filter_domain) ==
    ~(filter_domain # NoFilter /\ doc.domain # filter_domain)

\* retrieve's stop test after a result is appended.
RAGRetriever_is_full(results, top_k) == Len(results) >= top_k

\* retrieve's loop over enumerate(zip(valid_indices, distances[:len(valid_indices)])),
\* from position i (1-based here) on. With the local store doc_map is keyed by the
\* position in the list find_by_indices returned; with MongoDB by chunk_id.
RECURSIVE RAGRetriever_join_loop(_, _, _, _, _, _, _, _)
RAGRetriever_join_loop(kind, docs_found, valid, slots, i, results, top_k, filter_domain) ==
    IF i > Len(valid) THEN results
    ELSE LET idx == valid[i]
             distance == slots[i].distance
             found == IF kind = "local"
                      THEN i <= Len(docs_found)
                      ELSE \E j \in 1..Len(docs_found) : docs_found[j].chunk_id = idx
             doc == IF kind = "local"
                    THEN docs_found[i]
                    ELSE docs_found[CHOOSE j \in 1..Len(docs_found) :
                                       /\ docs_found[j].chunk_id = idx
                                       /\ \A l \in (j + 1)..Len(docs_found) :
                                              docs_found[l].chunk_id # idx]
             chunk_id == IF kind = "local" /\ doc.has_meta THEN doc.chunk_id ELSE idx
         IN IF ~found
            THEN RAGRetriever_join_loop(kind, docs_found, valid, slots, i + 1, results,
                                        top_k, filter_domain)
            ELSE IF ~RAGRetriever_passes_filter(doc, filter_domain)
                 THEN RAGRetriever_join_loop(kind, docs_found, valid, slots, i + 1,
                                             results, top_k, filter_domain)
                 ELSE LET grown == Append(results, Result(doc, chunk_id, distance))
                      IN IF RAGRetriever_is_full(grown, top_k)
                         THEN grown
                         ELSE RAGRetriever_join_loop(kind, docs_found, valid, slots, i + 1,
                                                     grown, top_k, filter_domain)

\* A faulty variant of RAGRetriever_retrieve: when the filter left fewer than
\* top_k results, the whole index is searched and joined again.
RAGRetriever_retrieve_SearchesAgain(store, dim, ix, query, top_k, filter_domain) ==
    LET query_embedding == embed_query(query)
        search_k == IF filter_domain # NoFilter THEN top_k * 3 ELSE top_k
        Round(k) ==
            LET found == FaissManager_search(dim, ix, query_embedding, k)
                valid_indices == ValidIndices(found.out)
                docs_found == IF store.kind = "local"
                             THEN LocalJSONStorage_find_by_indices(store.documents,
                                                                   store.metadatas,
                                                                   valid_indices)
                             ELSE MongoDBClient_find_by_chunk_ids(store.collection,
                                                                  valid_indices)
            IN IF found.res # "ok" THEN [res |-> found.res, out |-> <<>>]
               ELSE IF Len(valid_indices) = 0 THEN [res |-> "ok", out |-> <<>>]
               ELSE [res |-> "ok",
                     out |-> RAGRetriever_join_loop(store.kind, docs_found, valid_indices,
                                                    found.out, 1, <<>>, top_k, filter_domain)]
        first == Round(search_k)
    IN IF first.res = "ok" /\ Len(first.out) < top_k /\ Len(ix.vecs) > search_k
       THEN Round(Len(ix.vecs))
       ELSE first

\* A faulty variant of RAGRetriever_retrieve: a search without any filled slot is
\* an error.
RAGRetriever_retrieve_RaisesOnEmpty(store, dim, ix, query, top_k, filter_domain) ==
    LET query_embedding == embed_query(query)
        search_k == IF filter_domain # NoFilter THEN top_k * 3 ELSE top_k
        found == FaissManager_search(dim, ix, query_embedding, search_k)
        valid_indices == ValidIndices(found.out)
        docs_found == IF store.kind = "local"
                     THEN LocalJSONStorage_find_by_indices(store.documents, store.metadatas,
                                                           valid_indices)
                     ELSE MongoDBClient_find_by_chunk_ids(store.collection, valid_indices)
    IN IF found.res # "ok" THEN [res |-> found.res, out |-> <<>>]
       ELSE IF Len(valid_indices) = 0 THEN [res |-> "LookupError", out |-> <<>>]
       ELSE [res |-> "ok",
             out |-> RAGRetriever_join_loop(store.kind, docs_found, valid_indices, found.out,
                                            1, <<>>, top_k, filter_domain)]

\* RAGRetriever.retrieve(query, top_k, filter_domain) on a retriever holding the
\* manager (dim, ix) and the store.
RAGRetriever_retrieve(store, dim, ix, query, top_k, filter_domain) ==
    LET query_embedding == embed_query(query)
        search_k == IF filter_domain # NoFilter THEN top_k * 3 ELSE top_k
        found == FaissManager_search(dim, ix, query_embedding, search_k)
        valid_indices == ValidIndices(found.out)
        docs_found == IF store.kind = "local"
                     THEN LocalJSONStorage_find_by_indices(store.documents, store.metadatas,
                                                           valid_indices)
                     ELSE MongoDBClient_find_by_chunk_ids(store.collection, valid_indices)
    IN IF found.res # "ok" THEN [res |-> found.res, out |-> <<>>]
       ELSE IF Len(valid_indices) = 0 THEN [res |-> "ok", out |-> <<>>]
       ELSE [res |-> "ok",
             out |-> RAGRetriever_join_loop(store.kind, docs_found, valid_indices, found.out,
                                            1, <<>>, top_k, filter_domain)]

(***************************************************************************)
(* FaissManager: the calls                                                 *)
(***************************************************************************)

\* The record of a call: d is the dimension of its rows or query; n the number of
\* rows, top_k or num_vectors; flag whether a GPU acquisition or transfer failed
\* in it, or memory_constraint; arg the domain filter, the records or the
\* ordinals; query the query text.
Call(name, d, n, flag) ==
    [name |-> name, d |-> d, n |-> n, flag |-> flag, arg |-> "", query |-> ""]

NeverSaved == [dimension |-> 0, d |-> 0, vecs |-> <<>>, total_vectors |-> 0, valid |-> FALSE]

\* FaissManager(dimension, use_gpu): a fresh manager; the files on disk stay.
\* want_gpu is use_gpu as given or as detected.
Construct(d, want_gpu, gpu_ok) ==
    LET made == FaissManager__create_index(d, want_gpu, gpu_ok) IN
    /\ dimension' = d
    /\ use_gpu' = made.use_gpu
    /\ index' = made.index
    /\ total_vectors' = 0
    /\ op' = Call("construct", d, 0, want_gpu /\ ~gpu_ok)
    /\ res' = made.res
    /\ out' = <<>>
    /\ UNCHANGED <<faiss_file, saved>>
    /\ UNCHANGED <<storeVars, mongoVars, buildVars, store_kind, chunk_dir, hybridVars>>

AddVectors(vectors, n_meta) ==
    LET r == FaissManager_add_vectors(dimension, index, total_vectors, vectors, n_meta) IN
    /\ Len(index.vecs) + Len(vectors) <= MaxVectors
    /\ index' = r.index
    /\ total_vectors' = r.total_vectors
    /\ op' = Call("add_vectors", Len(vectors[1]), Len(vectors), FALSE)
    /\ res' = r.res
    /\ out' = <<>>
    /\ UNCHANGED <<dimension, use_gpu, faiss_file, saved>>
    /\ UNCHANGED <<storeVars, mongoVars, buildVars, store_kind, chunk_dir, hybridVars>>

Search(q, k) ==
    LET r == FaissManager_search(dimension, index, q, k) IN
    /\ op' = Call("search", Len(q), k, FALSE)
    /\ res' = r.res
    /\ out' = r.out
    /\ UNCHANGED faissVars
    /\ UNCHANGED <<storeVars, mongoVars, buildVars, store_kind, chunk_dir, hybridVars>>

Save(conv_ok) ==
    LET r == FaissManager_save(use_gpu, index, faiss_file, conv_ok) IN
    /\ faiss_file' = r.file
    /\ saved' = IF r.res = "ok"
                THEN [dimension |-> dimension, d |-> index.d, vecs |-> index.vecs,
                      total_vectors |-> total_vectors, valid |-> TRUE]
                ELSE saved
    /\ op' = Call("save", 0, 0, FALSE)
    /\ res' = r.res
    /\ out' = <<>>
    /\ UNCHANGED <<dimension, use_gpu, index, total_vectors>>
    /\ UNCHANGED <<storeVars, mongoVars, buildVars, store_kind, chunk_dir, hybridVars>>

Load(gpu_ok) ==
    LET r == FaissManager_load(use_gpu, index, total_vectors, faiss_file, gpu_ok) IN
    /\ index' = r.index
    /\ total_vectors' = r.total_vectors
    /\ op' = Call("load", 0, 0, faiss_file.exists /\ use_gpu /\ ~gpu_ok)
    /\ res' = r.res
    /\ out' = <<>>
    /\ UNCHANGED <<dimension, use_gpu, faiss_file, saved>>
    /\ UNCHANGED <<storeVars, mongoVars, buildVars, store_kind, chunk_dir, hybridVars>>

(***************************************************************************)
(* The build scripts and the server                                        *)
(***************************************************************************)

\* The chunk files a run may find: up to MaxChunks chunks, each with its content
\* and the domain of its file.
RawChunks == UNION {[1..n -> [content : Texts, domain : Domains]] : n \in 0..MaxChunks}

\* load_chunks: chunk_id is chunk_<position in all_chunks>, here the number.
load_chunks(raw) ==
    [i \in 1..Len(raw) |->
        [chunk_id |-> i - 1, content |-> raw[i].content, domain |-> raw[i].domain]]

\* No script or server holds the manager and the store.
Quiescent == pc \in {"idle", "built", "serving", "failed"}

total_batches == (Len(chunks) + batch_size - 1) \div batch_size

\* chunks[start_idx:end_idx] of the batch loop.
batch_chunks ==
    LET start_idx == batch_idx * batch_size
        last == (batch_idx + 1) * batch_size
        end_idx == IF last < Len(chunks) THEN last ELSE Len(chunks)
    IN SubSeq(chunks, start_idx + 1, end_idx)

\* Both scripts, up to the batch loop: the manager is created empty and the
\* chunks are loaded; a run that finds no chunk returns.
StartBuild(want_gpu, gpu_ok, first_pc) ==
    LET raw == chunk_dir
        made == FaissManager__create_index(get_dimension, want_gpu, gpu_ok) IN
    /\ Quiescent
    /\ dimension' = get_dimension
    /\ use_gpu' = made.use_gpu
    /\ index' = made.index
    /\ total_vectors' = 0
    /\ chunks' = load_chunks(raw)
    /\ batch_idx' = 0
    /\ all_documents' = <<>>
    /\ pc' = IF made.res # "ok" THEN "failed" ELSE IF raw = <<>> THEN "idle" ELSE first_pc
    /\ op' = Call("construct", get_dimension, 0, want_gpu /\ ~gpu_ok)
    /\ res' = made.res
    /\ out' = <<>>

\* build_vectordb_local.main, steps 1-4: the storage is opened on the storage
\* directory as it is.
LocalBuildStart(want_gpu, gpu_ok) ==
    LET loaded == LocalJSONStorage__load_data(documents_file, metadata_file) IN
    /\ Len(loaded.documents) + Len(chunk_dir) <= MaxDocs
    /\ StartBuild(want_gpu, gpu_ok, "local_batches")
    /\ documents' = loaded.documents
    /\ metadatas' = loaded.metadatas
    /\ UNCHANGED <<faiss_file, saved, documents_file, metadata_file, mongoVars, store_kind, chunk_dir, hybridVars>>

\* One round of a batch loop up to add_vectors: the batch is embedded and added.
AddBatch(next_pc) ==
    LET texts == [i \in 1..Len(batch_chunks) |-> batch_chunks[i].content]
        embeddings == embed_documents(texts)
        r == FaissManager_add_vectors(dimension, index, total_vectors, embeddings,
                                      Len(batch_chunks))
    IN /\ index' = r.index
       /\ total_vectors' = r.total_vectors
       /\ batch_idx' = batch_idx + 1
       /\ pc' = IF r.res # "ok" THEN "failed"
                ELSE IF batch_idx + 1 < total_batches THEN pc ELSE next_pc
       /\ op' = Call("add_vectors", Len(embeddings[1]), Len(embeddings), FALSE)
       /\ res' = r.res
       /\ out' = <<>>
       /\ UNCHANGED <<dimension, use_gpu, faiss_file, saved, chunks, store_kind, chunk_dir, hybridVars>>

\* build_vectordb_local.main, step 5: one round of the batch loop.
LocalBuildBatch ==
    /\ pc = "local_batches"
    /\ AddBatch("local_insert")
    /\ all_documents' = all_documents \o batch_chunks
    /\ UNCHANGED <<storeVars, mongoVars, chunk_dir, hybridVars>>

\* build_vectordb_local.main, step 6: insert_many(all_documents), which saves.
LocalBuildInsert ==
    LET r == LocalJSONStorage_insert_many(documents, metadatas, all_documents)
        files == LocalJSONStorage__save_data(r.documents, r.metadatas)
    IN /\ pc = "local_insert"
       /\ documents' = r.documents
       /\ metadatas' = r.metadatas
       /\ documents_file' = files.documents_file
       /\ metadata_file' = files.metadata_file
       /\ pc' = "local_save"
       /\ op' = Call("insert_many", 0, Len(all_documents), FALSE)
       /\ res' = "ok"
       /\ out' = r.ids
       /\ UNCHANGED <<faissVars, mongoVars, store_kind, chunk_dir, hybridVars, chunks, batch_idx, all_documents>>

\* build_vectordb_local.main, step 7: the index is saved at the local index path.
LocalBuildSave(conv_ok) ==
    LET r == FaissManager_save(use_gpu, index, faiss_file, conv_ok) IN
    /\ pc = "local_save"
    /\ faiss_file' = r.file
    /\ pc' = IF r.res = "ok" THEN "built" ELSE "failed"
    /\ op' = Call("save", 0, 0, FALSE)
    /\ res' = r.res
    /\ out' = <<>>
    /\ UNCHANGED <<dimension, use_gpu, index, total_vectors, saved>>
    /\ UNCHANGED <<storeVars, mongoVars, store_kind, chunk_dir, hybridVars, chunks, batch_idx, all_documents>>

\* build_vectordb.main, steps 1-4.
MongoBuildStart(want_gpu, gpu_ok) ==
    /\ StartBuild(want_gpu, gpu_ok, "mongo_batches")
    /\ UNCHANGED <<faiss_file, saved, storeVars, mongoVars, store_kind, chunk_dir, hybridVars>>

\* build_vectordb.main, step 5: one round of the batch loop, add_vectors then
\* insert_many of the batch.
MongoBuildBatch(mongo_ok) ==
    /\ pc = "mongo_batches"
    /\ AddBatch("mongo_save")
    /\ collection' = IF pc' = "failed" THEN collection
                     ELSE MongoDBClient_insert_many(collection, batch_chunks, mongo_ok).collection
    /\ UNCHANGED <<storeVars, default_file, all_documents, chunk_dir, hybridVars>>

\* build_vectordb.main, step 6: the index is saved at FAISS_INDEX_PATH.
MongoBuildSave(conv_ok) ==
    LET r == FaissManager_save(use_gpu, index, default_file, conv_ok) IN
    /\ pc = "mongo_save"
    /\ default_file' = r.file
    /\ pc' = IF r.res = "ok" THEN "built" ELSE "failed"
    /\ op' = Call("save", 0, 0, FALSE)
    /\ res' = r.res
    /\ out' = <<>>
    /\ UNCHANGED <<dimension, use_gpu, index, total_vectors, faiss_file, saved>>
    /\ UNCHANGED <<storeVars, collection, store_kind, chunk_dir, hybridVars, chunks, batch_idx, all_documents>>

\* rag_main.lifespan, steps 2-4: a manager is created and, if a snapshot exists (the
\* local one first), loaded; the store is the local one unless USE_LOCAL_STORAGE is
\* off and the local snapshot exists.
Lifespan(use_local, want_gpu, gpu_ok, load_gpu_ok) ==
    LET made == FaissManager__create_index(get_dimension, want_gpu, gpu_ok)
        index_path == IF faiss_file.exists THEN faiss_file ELSE default_file
        r == IF index_path.exists
             THEN FaissManager_load(made.use_gpu, made.index, 0, index_path, load_gpu_ok)
             ELSE [index |-> made.index, total_vectors |-> 0, res |-> made.res]
        loaded == LocalJSONStorage__load_data(documents_file, metadata_file)
        local == use_local \/ ~faiss_file.exists
    IN /\ Quiescent
       /\ dimension' = get_dimension
       /\ use_gpu' = made.use_gpu
       /\ index' = r.index
       /\ total_vectors' = r.total_vectors
       /\ store_kind' = IF local THEN "local" ELSE "mongo"
       /\ documents' = IF local THEN loaded.documents ELSE <<>>
       /\ metadatas' = IF local THEN loaded.metadatas ELSE <<>>
       /\ pc' = IF r.res = "ok" THEN "serving" ELSE "failed"
       /\ op' = Call("load", 0, 0,
                     \/ want_gpu /\ ~gpu_ok
                     \/ index_path.exists /\ made.use_gpu /\ ~load_gpu_ok)
       /\ res' = r.res
       /\ out' = <<>>
       /\ chunks' = <<>>
       /\ batch_idx' = 0
       /\ all_documents' = <<>>
       /\ UNCHANGED <<faiss_file, saved, documents_file, metadata_file, mongoVars, chunk_dir, hybridVars>>

\* The store the server's retriever holds.
metadata_store ==
    IF store_kind = "local" THEN LocalStore(documents, metadatas) ELSE MongoStore(collection)

\* A call of RAGRetriever.retrieve on the running server.
Retrieve(query, top_k, filter_domain) ==
    LET r == RAGRetriever_retrieve(metadata_store, dimension, index, query, top_k,
                                   filter_domain)
    IN /\ pc = "serving"
       /\ op' = [Call("retrieve", Len(embed_query(query)), top_k, FALSE)
                    EXCEPT !.arg = filter_domain, !.query = query]
       /\ res' = r.res
       /\ out' = r.out
       /\ UNCHANGED <<faissVars, storeVars, mongoVars, store_kind, chunk_dir, hybridVars, buildVars>>

\* np.dot of two vectors of one length.
RECURSIVE DotUpTo(_, _, _)
DotUpTo(u, v, i) == IF i = 0 THEN 0 ELSE u[i] * v[i] + DotUpTo(u, v, i - 1)
Dot(u, v) == DotUpTo(u, v, Len(u))

\* result['rerank_score'] = similarity.
Reranked(result, similarity) ==
    [content |-> result.content, chunk_id |-> result.chunk_id, domain |-> result.domain,
     score |-> result.score, distance |-> result.distance, rerank_score |-> similarity]

\* list.sort(key=rerank_score, reverse=True): stable, the higher score first.
RECURSIVE SortedInsert(_, _)
SortedInsert(sorted, r) ==
    IF sorted = <<>> THEN <<r>>
    ELSE IF Head(sorted).rerank_score >= r.rerank_score
         THEN <<Head(sorted)>> \o SortedInsert(Tail(sorted), r)
         ELSE <<r>> \o sorted

RECURSIVE SortByRerank(_, _)
SortByRerank(results, sorted) ==
    IF results = <<>> THEN sorted
    ELSE SortByRerank(Tail(results), SortedInsert(sorted, Head(results)))

\* RAGRetriever.retrieve_with_rerank(query, top_k, initial_k, filter_domain).
RAGRetriever_retrieve_with_rerank(store, dim, ix, query, top_k, initial_k, filter_domain) ==
    LET initial == RAGRetriever_retrieve(store, dim, ix, query, initial_k, filter_domain)
        initial_results == initial.out
        query_embedding == embed_query(query)
        reranked_results ==
            [i \in 1..Len(initial_results) |->
                Reranked(initial_results[i],
                         Dot(query_embedding, embed_query(initial_results[i].content)))]
        sorted == SortByRerank(reranked_results, <<>>)
    IN IF initial.res # "ok" THEN [res |-> initial.res, out |-> <<>>]
       ELSE IF Len(initial_results) <= top_k THEN [res |-> "ok", out |-> initial_results]
       ELSE [res |-> "ok", out |-> SubSeq(sorted, 1, top_k)]

\* A call of RAGRetriever.retrieve_with_rerank on the running server.
RetrieveWithRerank(query, top_k, initial_k, filter_domain) ==
    LET r == RAGRetriever_retrieve_with_rerank(metadata_store, dimension, index, query,
                                               top_k, initial_k, filter_domain)
    IN /\ pc = "serving"
       /\ op' = [Call("retrieve_with_rerank", Len(embed_query(query)), top_k, FALSE)
                    EXCEPT !.arg = initial_k, !.query = query]
       /\ res' = r.res
       /\ out' = r.out
       /\ UNCHANGED <<faissVars, storeVars, mongoVars, store_kind, chunk_dir, hybridVars,
                      buildVars>>

\* The calls retrieve makes on the embedding service and on the manager, in
\* order: embed_query(query), then search(query_embedding, search_k); nothing
\* after the search calls either again.
RAGRetriever_retrieve_calls(query, top_k, filter_domain) ==
    LET search_k == IF filter_domain # NoFilter THEN top_k * 3 ELSE top_k
    IN <<[fn |-> "embed_query", arg |-> query, k |-> 0],
         [fn |-> "search", arg |-> query, k |-> search_k]>>

\* A call of RAGRetriever.retrieve on the running server, with the calls it made
\* kept in invoked.
RetrieveLogged(query, top_k, filter_domain) ==
    LET r == RAGRetriever_retrieve(metadata_store, dimension, index, query, top_k,
                                   filter_domain)
    IN /\ pc = "serving"
       /\ op' = [Call("retrieve", Len(embed_query(query)), top_k, FALSE)
                    EXCEPT !.arg = filter_domain, !.query = query]
       /\ res' = r.res
       /\ out' = r.out
       /\ invoked' = RAGRetriever_retrieve_calls(query, top_k, filter_domain)
       /\ UNCHANGED <<faissVars, storeVars, mongoVars, store_kind, chunk_dir, buildVars,
                      backend, local_llm, gemini_model, stats, stage, text, n_calls>>

\* A call of RAGRetriever.retrieve on a retriever built over the manager as it
\* is and the local store, without filter.
RetrieveDirect(query, top_k) ==
    LET r == RAGRetriever_retrieve(LocalStore(documents, metadatas), dimension, index,
                                   query, top_k, NoFilter)
    IN /\ op' = [Call("retrieve", Len(embed_query(query)), top_k, FALSE)
                    EXCEPT !.query = query]
       /\ res' = r.res
       /\ out' = r.out
       /\ UNCHANGED <<faissVars, storeVars, mongoVars, store_kind, chunk_dir, hybridVars, buildVars>>

(***************************************************************************)
(* recommend_index_type                                                    *)
(***************************************************************************)

\* The values of IndexType.
IndexType == {"flat", "hnsw", "ivf", "ivf_pq"}

\* A faulty variant of recommend_index_type: the first boundary belongs to the
\* smaller row.
recommend_index_type_Inclusive(num_vectors, memory_constraint) ==
    IF num_vectors <= 10000 THEN "flat"
    ELSE IF num_vectors < 100000 THEN (IF memory_constraint THEN "ivf" ELSE "hnsw")
    ELSE IF num_vectors < 1000000 THEN (IF memory_constraint THEN "ivf_pq" ELSE "ivf")
    ELSE "ivf_pq"

recommend_index_type(num_vectors, memory_constraint) ==
    IF num_vectors < 10000 THEN "flat"
    ELSE IF num_vectors < 100000 THEN (IF memory_constraint THEN "ivf" ELSE "hnsw")
    ELSE IF num_vectors < 1000000 THEN (IF memory_constraint THEN "ivf_pq" ELSE "ivf")
    ELSE "ivf_pq"

\* The corpus sizes tried: those within Delta of a boundary of the if-chain, and
\* the smallest ones.
Thresholds == {10000, 100000, 1000000}
Counts == (0..Delta) \cup UNION {(t - Delta)..(t + Delta) : t \in Thresholds}

Recommend(num_vectors, memory_constraint) ==
    /\ op' = Call("recommend", 0, num_vectors, memory_constraint)
    /\ res' = "ok"
    /\ out' = recommend_index_type(num_vectors, memory_constraint)
    /\ UNCHANGED <<faissVars, storeVars, mongoVars, buildVars, store_kind, chunk_dir, hybridVars>>

(***************************************************************************)
(* HybridAgenticChunker                                                    *)
(***************************************************************************)

\* The values of LLMBackend.
LLMBackend == {"local", "gemini", "auto"}

\* A text is the sequence of the stripped lengths of its paragraphs (the pieces
\* between blank lines); the lengths tried are around the fallback's minimum.
ParaLens == {0, fallback_min, fallback_min + 1}
InputTexts == UNION {[1..n -> ParaLens] : n \in 1..MaxParas}

\* A faulty variant of Blank: no text counts as blank.
Blank_Never(t) == FALSE

\* not text.strip()
Blank(t) == \A i \in 1..Len(t) : t[i] = 0

RECURSIVE SumLen(_)
SumLen(t) == IF t = <<>> THEN 0 ELSE Head(t) + SumLen(Tail(t))

\* len(text): the paragraphs and the blank lines between them.
TextLen(t) == SumLen(t) + 2 * (Len(t) - 1)

\* What a backend answers: an exception, or a text whose CHUNK_N: markers, numbered
\* from 1, are followed by fragments of these stripped lengths (none: the answer
\* has no marker).
FragLens == {0, parse_min, parse_min + 1}
Responses ==
    {[raised |-> TRUE, frags |-> <<>>]}
    \cup {[raised |-> FALSE, frags |-> f] : f \in UNION {[1..n -> FragLens] : n \in 0..MaxFrags}}

NoStats == [local_success |-> 0, local_failure |-> 0,
            gemini_success |-> 0, gemini_failure |-> 0, total_cost |-> 0]

\* The constructor: llama_loads is whether llama-cpp is installed and the model
\* loads, gemini_inits whether the Gemini package, key and model are there.
HybridAgenticChunker_init(mode, llama_loads, gemini_inits) ==
    LET llm == mode \in {"local", "auto"} /\ llama_loads
        gm == mode \in {"gemini", "auto"} /\ gemini_inits
    IN [local_llm |-> llm,
        gemini_model |-> gm,
        res |-> IF mode = "local" /\ ~llama_loads THEN "Exception"
                ELSE IF mode = "gemini" /\ ~gemini_inits THEN "Exception"
                ELSE IF ~llm /\ ~gm THEN "RuntimeError"
                ELSE "ok"]

HybridAgenticChunker__parse_llm_response(frags) ==
    LET matches == [i \in 1..Len(frags) |->
                       [id |-> i, size |-> frags[i], method |-> "agentic", llm_backend |-> ""]]
    IN SelectSeq(matches, LAMBDA c : c.size > 0 /\ c.size > parse_min)

Tagged(cs, tag) == [i \in 1..Len(cs) |-> [cs[i] EXCEPT !.llm_backend = tag]]

\* A faulty variant of HybridAgenticChunker__chunk_with_local: an exception of the
\* model call is not caught.
HybridAgenticChunker__chunk_with_local_Propagating(llm, response) ==
    IF ~llm THEN [chunks |-> <<>>, raised |-> FALSE, called |-> FALSE]
    ELSE IF response.raised THEN [chunks |-> <<>>, raised |-> TRUE, called |-> TRUE]
    ELSE [chunks |-> Tagged(HybridAgenticChunker__parse_llm_response(response.frags), "local"),
          raised |-> FALSE, called |-> TRUE]

\* called: the model was invoked; raised: an exception leaves the function.
HybridAgenticChunker__chunk_with_local(llm, response) ==
    IF ~llm THEN [chunks |-> <<>>, raised |-> FALSE, called |-> FALSE]
    ELSE IF response.raised THEN [chunks |-> <<>>, raised |-> FALSE, called |-> TRUE]
    ELSE [chunks |-> Tagged(HybridAgenticChunker__parse_llm_response(response.frags), "local"),
          raised |-> FALSE, called |-> TRUE]

\* A faulty variant of HybridAgenticChunker__chunk_with_gemini: the chunks get the
\* local backend's tag.
HybridAgenticChunker__chunk_with_gemini_TaggedLocal(gm, response) ==
    IF ~gm THEN [chunks |-> <<>>, raised |-> FALSE, called |-> FALSE]
    ELSE IF response.raised THEN [chunks |-> <<>>, raised |-> FALSE, called |-> TRUE]
    ELSE [chunks |-> Tagged(HybridAgenticChunker__parse_llm_response(response.frags), "local"),
          raised |-> FALSE, called |-> TRUE]

HybridAgenticChunker__chunk_with_gemini(gm, response) ==
    IF ~gm THEN [chunks |-> <<>>, raised |-> FALSE, called |-> FALSE]
    ELSE IF response.raised THEN [chunks |-> <<>>, raised |-> FALSE, called |-> TRUE]
    ELSE [chunks |-> Tagged(HybridAgenticChunker__parse_llm_response(response.frags), "gemini"),
          raised |-> FALSE, called |-> TRUE]

HybridAgenticChunker__fallback_chunking(t) ==
    LET paragraphs == [i \in 1..Len(t) |->
                          [id |-> i, size |-> t[i], method |-> "fallback", llm_backend |-> "none"]]
    IN SelectSeq(paragraphs, LAMBDA c : c.size > 0 /\ c.size > fallback_min)

\* In units of 1e-11 USD: len(text)/4 tokens at 0.075 USD per million, and 2000
\* output tokens at 0.30 USD per million.
HybridAgenticChunker__estimate_cost(t) == TextLen(t) * 1875 + 60000000

\* A faulty variant of Truthy: a non-empty chunk list does not end the call.
Truthy_Never(cs) == FALSE

\* if chunks:
Truthy(cs) == cs # <<>>

\* An entry of the history of a call: the backend invoked ("none": the paragraph
\* split), what it answered and the number of chunks that made.
Invocation(name, response, r) ==
    [backend |-> name,
     answer |-> IF response.raised THEN "exception" ELSE "text",
     n |-> Len(r.chunks)]

\* chunk_text up to its first stage: a blank text returns [] at once.
ChunkText(t) ==
    /\ stage \in {"idle", "DONE", "RAISED"}
    /\ n_calls < MaxCalls
    /\ n_calls' = n_calls + 1
    /\ text' = t
    /\ invoked' = <<>>
    /\ op' = Call("chunk_text", 0, Len(t), Blank(t))
    /\ out' = <<>>
    /\ IF Blank(t)
          THEN stage' = "DONE" /\ res' = "ok"
          ELSE stage' = "TRY_PRIMARY" /\ res' = "running"
    /\ UNCHANGED <<backend, local_llm, gemini_model, stats>>
    /\ UNCHANGED <<faissVars, storeVars, mongoVars, buildVars, store_kind, chunk_dir>>

\* The stage of the local backend: invoked in AUTO mode when loaded, and in LOCAL
\* mode; passed over in GEMINI mode.
TryPrimary(response) ==
    /\ stage = "TRY_PRIMARY"
    /\ LET r == HybridAgenticChunker__chunk_with_local(local_llm, response) IN
       IF (backend = "auto" /\ local_llm) \/ backend = "local"
          THEN /\ invoked' = IF r.called THEN Append(invoked, Invocation("local", response, r)) ELSE invoked
               /\ IF r.raised
                     THEN stage' = "RAISED" /\ res' = "Exception" /\ UNCHANGED <<stats, out>>
                  ELSE IF Truthy(r.chunks)
                     THEN /\ stats' = [stats EXCEPT !.local_success = @ + 1]
                          /\ stage' = "DONE"
                          /\ res' = "ok"
                          /\ out' = r.chunks
                  ELSE /\ stats' = [stats EXCEPT !.local_failure = @ + 1]
                       /\ stage' = "TRY_SECONDARY"
                       /\ UNCHANGED <<res, out>>
          ELSE /\ stage' = "TRY_SECONDARY"
               /\ UNCHANGED <<stats, invoked, res, out>>
    /\ UNCHANGED <<backend, local_llm, gemini_model, text, n_calls, op>>
    /\ UNCHANGED <<faissVars, storeVars, mongoVars, buildVars, store_kind, chunk_dir>>

\* The stage of the Gemini backend: invoked in AUTO mode when set, and in GEMINI
\* mode; passed over in LOCAL mode.
TrySecondary(response) ==
    /\ stage = "TRY_SECONDARY"
    /\ LET r == HybridAgenticChunker__chunk_with_gemini(gemini_model, response) IN
       IF (backend = "auto" /\ gemini_model) \/ backend = "gemini"
          THEN /\ invoked' = IF r.called THEN Append(invoked, Invocation("gemini", response, r)) ELSE invoked
               /\ IF r.raised
                     THEN stage' = "RAISED" /\ res' = "Exception" /\ UNCHANGED <<stats, out>>
                  ELSE IF Truthy(r.chunks)
                     THEN /\ stats' = [stats EXCEPT
                                          !.gemini_success = @ + 1,
                                          !.total_cost = @ + HybridAgenticChunker__estimate_cost(text)]
                          /\ stage' = "DONE"
                          /\ res' = "ok"
                          /\ out' = r.chunks
                  ELSE /\ stats' = [stats EXCEPT !.gemini_failure = @ + 1]
                       /\ stage' = "FALLBACK_NAIVE"
                       /\ UNCHANGED <<res, out>>
          ELSE /\ stage' = "FALLBACK_NAIVE"
               /\ UNCHANGED <<stats, invoked, res, out>>
    /\ UNCHANGED <<backend, local_llm, gemini_model, text, n_calls, op>>
    /\ UNCHANGED <<faissVars, storeVars, mongoVars, buildVars, store_kind, chunk_dir>>

\* The paragraph split, when no backend returned a chunk.
FallbackNaive ==
    /\ stage = "FALLBACK_NAIVE"
    /\ LET cs == HybridAgenticChunker__fallback_chunking(text) IN
       /\ out' = cs
       /\ invoked' = Append(invoked, [backend |-> "none", answer |-> "text", n |-> Len(cs)])
    /\ stage' = "DONE"
    /\ res' = "ok"
    /\ UNCHANGED <<backend, local_llm, gemini_model, stats, text, n_calls, op>>
    /\ UNCHANGED <<faissVars, storeVars, mongoVars, buildVars, store_kind, chunk_dir>>

vars == <<dimension, use_gpu, index, total_vectors, faiss_file, saved,
          documents, metadatas, documents_file, metadata_file,
          default_file, collection, store_kind, chunk_dir,
          pc, chunks, batch_idx, all_documents,
          backend, local_llm, gemini_model, stats, stage, text, invoked, n_calls,
          op, res, out>>

InitFaiss ==
    /\ \E d \in Dims, want_gpu \in BOOLEAN, gpu_ok \in BOOLEAN :
          LET made == FaissManager__create_index(d, want_gpu, gpu_ok) IN
          /\ dimension = d
          /\ use_gpu = made.use_gpu
          /\ index = made.index
          /\ op = Call("construct", d, 0, want_gpu /\ ~gpu_ok)
          /\ res = made.res
    /\ total_vectors = 0
    /\ faiss_file = NoFile
    /\ saved = NeverSaved
    /\ out = <<>>

\* Nothing built yet: no file in the storage directory, an empty collection, no
\* script or server running.
NothingBuilt ==
    /\ documents = <<>>
    /\ metadatas = <<>>
    /\ documents_file = NoJson
    /\ metadata_file = NoJson
    /\ default_file = NoFile
    /\ collection = <<>>
    /\ store_kind = "local"
    /\ pc = "idle"
    /\ chunks = <<>>
    /\ batch_idx = 0
    /\ all_documents = <<>>

\* No chunker has been constructed.
NoChunker ==
    /\ backend = "auto"
    /\ local_llm = FALSE
    /\ gemini_model = FALSE
    /\ stats = NoStats
    /\ stage = "idle"
    /\ text = <<>>
    /\ invoked = <<>>
    /\ n_calls = 0

InitStore == NothingBuilt /\ chunk_dir = <<>> /\ NoChunker

\* Before any script runs: the chunk files are there, no manager is in use yet.
InitBuild ==
    /\ dimension = get_dimension
    /\ use_gpu = FALSE
    /\ index = IndexHNSWFlat(get_dimension)
    /\ total_vectors = 0
    /\ faiss_file = NoFile
    /\ saved = NeverSaved
    /\ op = Call("construct", get_dimension, 0, FALSE)
    /\ res = "ok"
    /\ out = <<>>
    /\ NothingBuilt
    /\ chunk_dir \in RawChunks
    /\ NoChunker

\* A manager that is never used, and nothing built.
IdleManager ==
    /\ dimension = get_dimension
    /\ use_gpu = FALSE
    /\ index = IndexHNSWFlat(get_dimension)
    /\ total_vectors = 0
    /\ faiss_file = NoFile
    /\ saved = NeverSaved
    /\ NothingBuilt
    /\ chunk_dir = <<>>

InitRecommend ==
    /\ IdleManager
    /\ NoChunker
    /\ op = Call("construct", get_dimension, 0, FALSE)
    /\ res = "ok"
    /\ out = <<>>

\* A chunker right after its constructor returned.
InitHybrid ==
    /\ IdleManager
    /\ \E mode \in LLMBackend, llama_loads \in BOOLEAN, gemini_inits \in BOOLEAN :
          LET made == HybridAgenticChunker_init(mode, llama_loads, gemini_inits) IN
          /\ made.res = "ok"
          /\ backend = mode
          /\ local_llm = made.local_llm
          /\ gemini_model = made.gemini_model
    /\ stats = NoStats
    /\ stage = "idle"
    /\ text = <<>>
    /\ invoked = <<>>
    /\ n_calls = 0
    /\ op = Call("HybridAgenticChunker", 0, 0, FALSE)
    /\ res = "ok"
    /\ out = <<>>

Init == InitFaiss /\ InitStore

NextFaiss ==
    \/ \E d \in Dims, want_gpu \in BOOLEAN, gpu_ok \in BOOLEAN : Construct(d, want_gpu, gpu_ok)
    \/ \E d \in Dims : \E vectors \in Batches(d) :
          \E n_meta \in {Len(vectors), Len(vectors) + 1} : AddVectors(vectors, n_meta)
    \/ \E d \in Dims : \E q \in Vectors(d) : \E k \in 1..MaxK : Search(q, k)
    \/ \E conv_ok \in BOOLEAN : Save(conv_ok)
    \/ \E gpu_ok \in BOOLEAN : Load(gpu_ok)
    \/ \E query \in Texts, top_k \in 1..MaxK : RetrieveDirect(query, top_k)

SpecFaiss == Init /\ [][NextFaiss]_vars

\* LocalJSONStorage(storage_dir) constructed by a new process: documents and
\* metadatas start empty and _load_data reads the files; a torn file makes
\* json.load raise and no store comes to be.
StoreOpen ==
    LET loaded == LocalJSONStorage__load_data(documents_file, metadata_file)
        raised == documents_file.torn \/ metadata_file.torn
    IN /\ pc \in {"idle", "crashed"}
       /\ documents' = IF raised THEN <<>> ELSE loaded.documents
       /\ metadatas' = IF raised THEN <<>> ELSE loaded.metadatas
       /\ pc' = IF raised THEN "crashed" ELSE "idle"
       /\ op' = Call("LocalJSONStorage", 0, 0, FALSE)
       /\ res' = IF raised THEN "JSONDecodeError" ELSE "ok"
       /\ out' = <<>>
       /\ UNCHANGED <<faissVars, documents_file, metadata_file, mongoVars, store_kind,
                      chunk_dir, hybridVars, chunks, batch_idx, all_documents>>

\* insert_many(records) on the live store; crash is "none" or the point of
\* _save_data at which the process dies, taking the object with it.
StoreInsertMany(records, crash) ==
    LET r == LocalJSONStorage_insert_many(documents, metadatas, records)
        saves == records # <<>>
        files == IF ~saves
                 THEN [documents_file |-> documents_file, metadata_file |-> metadata_file]
                 ELSE IF crash = "none"
                 THEN LocalJSONStorage__save_data(r.documents, r.metadatas)
                 ELSE LocalJSONStorage__save_data_interrupted(r.documents, r.metadatas,
                                                              documents_file, metadata_file,
                                                              crash)
        dies == saves /\ crash # "none"
    IN /\ pc = "idle"
       /\ Len(documents) + Len(records) <= MaxDocs
       /\ documents' = IF dies THEN <<>> ELSE r.documents
       /\ metadatas' = IF dies THEN <<>> ELSE r.metadatas
       /\ documents_file' = files.documents_file
       /\ metadata_file' = files.metadata_file
       /\ pc' = IF dies THEN "crashed" ELSE "idle"
       /\ op' = [Call("insert_many", 0, Len(records), FALSE) EXCEPT !.arg = records]
       /\ res' = IF dies THEN "killed" ELSE "ok"
       /\ out' = IF dies THEN <<>> ELSE r.ids
       /\ UNCHANGED <<faissVars, mongoVars, store_kind, chunk_dir, hybridVars,
                      chunks, batch_idx, all_documents>>

\* update_one(doc_id, update_data) on the live store.
StoreUpdateOne(doc_id, update_data) ==
    LET r == LocalJSONStorage_update_one(metadatas, doc_id, update_data)
        files == IF r.found THEN LocalJSONStorage__save_data(documents, r.metadatas)
                 ELSE [documents_file |-> documents_file, metadata_file |-> metadata_file]
    IN /\ pc = "idle"
       /\ metadatas' = r.metadatas
       /\ documents_file' = files.documents_file
       /\ metadata_file' = files.metadata_file
       /\ op' = [Call("update_one", 0, doc_id, r.found) EXCEPT !.arg = update_data]
       /\ res' = "ok"
       /\ out' = <<>>
       /\ UNCHANGED <<faissVars, documents, mongoVars, store_kind, chunk_dir, hybridVars,
                      buildVars>>

\* find_by_indices(indices) on the live store.
StoreFindByIndices(indices) ==
    /\ pc = "idle"
    /\ op' = [Call("find_by_indices", 0, Len(indices), FALSE) EXCEPT !.arg = indices]
    /\ res' = "ok"
    /\ out' = LocalJSONStorage_find_by_indices(documents, metadatas, indices)
    /\ UNCHANGED <<faissVars, storeVars, mongoVars, store_kind, chunk_dir, hybridVars,
                   buildVars>>

\* count() on the live store.
StoreCount ==
    /\ pc = "idle"
    /\ op' = Call("count", 0, LocalJSONStorage_count(documents), FALSE)
    /\ res' = "ok"
    /\ out' = <<>>
    /\ UNCHANGED <<faissVars, storeVars, mongoVars, store_kind, chunk_dir, hybridVars,
                   buildVars>>

(***************************************************************************)
(* AgenticChunker                                                          *)
(***************************************************************************)

\* The minimum lengths of AgenticChunker: a parsed fragment and a fallback
\* paragraph are kept when longer.
agentic_parse_min == 50
agentic_fallback_min == 100

\* What generate_content answers to AgenticChunker: an exception (of the call or
\* of response.text), or a text with the fragments frags after its CHUNK_N:
\* markers and the paragraphs paras between its blank lines.
AgenticResponses ==
    {[raised |-> TRUE, frags |-> <<>>, paras |-> <<>>]}
    \cup {[raised |-> FALSE, frags |-> f, paras |-> q] :
             f \in UNION {[1..n -> FragLens] : n \in 0..MaxFrags}, q \in InputTexts}

\* AgenticChunker._fallback_chunking(text): the paragraphs of the text called
\* name that are longer than the minimum; a chunk's content is told by the text
\* it is cut from and its place there.
AgenticChunker__fallback_chunking(name, paras) ==
    LET paragraphs == [idx \in 1..Len(paras) |->
                          [id |-> idx, content |-> [of |-> name, at |-> idx],
                           size |-> paras[idx], method |-> "fallback", agentic |-> FALSE]]
    IN SelectSeq(paragraphs, LAMBDA c : c.size > 0 /\ c.size > agentic_fallback_min)

\* AgenticChunker._parse_llm_response(response_text): the fragments longer than
\* the minimum; when there is none, _fallback_chunking(response_text). raised
\* tells whether it raises.
AgenticChunker__parse_llm_response(response) ==
    LET matches == [i \in 1..Len(response.frags) |->
                       [id |-> i, content |-> [of |-> "response", at |-> i],
                        size |-> response.frags[i], method |-> "llm_based", agentic |-> TRUE]]
        kept == SelectSeq(matches, LAMBDA c : c.size > 0 /\ c.size > agentic_parse_min)
    IN IF kept = <<>>
       THEN [raised |-> FALSE,
             chunks |-> AgenticChunker__fallback_chunking("response", response.paras)]
       ELSE [raised |-> FALSE, chunks |-> kept]

\* AgenticChunker.chunk_text(text): blank text gives no chunk; an exception of
\* the model call or of the parsing is caught and _fallback_chunking(text) is
\* returned.
AgenticChunker_chunk_text(t, response) ==
    IF Blank(t) THEN <<>>
    ELSE IF response.raised THEN AgenticChunker__fallback_chunking("document", t)
    ELSE LET parsed == AgenticChunker__parse_llm_response(response) IN
         IF parsed.raised THEN AgenticChunker__fallback_chunking("document", t)
         ELSE parsed.chunks

(***************************************************************************)
(* DocumentStructureChunker                                                *)
(***************************************************************************)

\* The constructor's defaults, and the length under which a line matching a
\* subsection pattern is a subsection header.
min_chunk_size == 200
max_chunk_size == 2000
subsection_max == 100

\* A line is what the patterns make of it and its length; lines carry no blanks
\* at their ends. The lengths tried are around the sizes above.
StructureLines ==
    {[kind |-> "section", len |-> 8], [kind |-> "page", len |-> 12],
     [kind |-> "subsection", len |-> 12], [kind |-> "subsection", len |-> subsection_max]}
    \cup {[kind |-> "plain", len |-> l] : l \in {0, min_chunk_size, max_chunk_size + 1}}
StructureTexts == UNION {[1..n -> StructureLines] : n \in 1..MaxLines}

\* len('\n'.join(content_lines)).
RECURSIVE JoinedLen(_)
JoinedLen(content_lines) ==
    IF content_lines = <<>> THEN 0
    ELSE IF Len(content_lines) = 1 THEN content_lines[1].len
    ELSE content_lines[1].len + 1 + JoinedLen(Tail(content_lines))

\* len('\n'.join(content_lines).strip()): empty lines at both ends go.
RECURSIVE StrippedLen(_)
StrippedLen(content_lines) ==
    IF content_lines = <<>> THEN 0
    ELSE IF Head(content_lines).len = 0 THEN StrippedLen(Tail(content_lines))
    ELSE IF content_lines[Len(content_lines)].len = 0
         THEN StrippedLen(SubSeq(content_lines, 1, Len(content_lines) - 1))
         ELSE JoinedLen(content_lines)

\* text.split('\n') with each line's place in the text.
Numbered(lines) ==
    [i \in 1..Len(lines) |-> [kind |-> lines[i].kind, len |-> lines[i].len, at |-> i]]

\* The places of the lines of a content.
Places(content_lines) == [i \in 1..Len(content_lines) |-> content_lines[i].at]

\* current_section before any header, and after the header at a place;
\* _create_chunk stores section or 'Unknown'.
NoSection == [name |-> "Unknown", at |-> 0]

\* A faulty variant of SectionAt: the first header's name stays for the whole text.
SectionAt_First(line) == [name |-> "header", at |-> 1]

SectionAt(line) == [name |-> "header", at |-> line.at]

\* DocumentStructureChunker._create_chunk appended to chunks: a chunk under the
\* minimum size is dropped and chunk_id stays. lines tells the lines joined into
\* the content, and lost the lines of the contents dropped so far.
DocumentStructureChunker__create_chunk(so_far, lost, content_lines, chunk_id, section) ==
    IF StrippedLen(content_lines) < min_chunk_size
    THEN [chunks |-> so_far, chunk_id |-> chunk_id, lost |-> lost \o Places(content_lines)]
    ELSE [chunks |-> Append(so_far, [id |-> chunk_id, size |-> StrippedLen(content_lines),
                                     section |-> section, lines |-> Places(content_lines)]),
          chunk_id |-> chunk_id + 1,
          lost |-> lost]

\* DocumentStructureChunker.chunk_text, the loop over the lines and the last
\* chunk after it.
RECURSIVE DocumentStructureChunker_loop(_, _, _, _, _, _)
DocumentStructureChunker_loop(lines, so_far, lost, current_section, current_content, chunk_id) ==
    IF lines = <<>>
    THEN IF current_content # <<>>
         THEN DocumentStructureChunker__create_chunk(so_far, lost, current_content, chunk_id,
                                                     current_section)
         ELSE [chunks |-> so_far, chunk_id |-> chunk_id, lost |-> lost]
    ELSE LET line == Head(lines)
             made == DocumentStructureChunker__create_chunk(so_far, lost, current_content,
                                                            chunk_id, current_section)
             grown == Append(current_content, line)
             cut == DocumentStructureChunker__create_chunk(so_far, lost, grown, chunk_id,
                                                           current_section)
         IN IF line.kind = "page"
            THEN DocumentStructureChunker_loop(Tail(lines), so_far, lost, current_section,
                                               current_content, chunk_id)
            ELSE IF line.kind = "section"
            THEN IF current_content # <<>>
                 THEN DocumentStructureChunker_loop(Tail(lines), made.chunks, made.lost,
                                                    SectionAt(line), <<line>>, made.chunk_id)
                 ELSE DocumentStructureChunker_loop(Tail(lines), so_far, lost,
                                                    SectionAt(line), <<line>>, chunk_id)
            ELSE IF line.kind = "subsection" /\ line.len < subsection_max
            THEN IF Len(current_content) > 1
                 THEN DocumentStructureChunker_loop(Tail(lines), made.chunks, made.lost,
                                                    current_section, <<line>>, made.chunk_id)
                 ELSE DocumentStructureChunker_loop(Tail(lines), so_far, lost,
                                                    current_section, <<line>>, chunk_id)
            ELSE IF JoinedLen(grown) > max_chunk_size
                 THEN DocumentStructureChunker_loop(Tail(lines), cut.chunks, cut.lost,
                                                    current_section, <<>>, cut.chunk_id)
                 ELSE DocumentStructureChunker_loop(Tail(lines), so_far, lost,
                                                    current_section, grown, chunk_id)

\* not text.strip(), for a text of lines.
BlankLines(lines) == \A i \in 1..Len(lines) : lines[i].len = 0

\* DocumentStructureChunker.chunk_text(text); the average size logged before
\* the return divides by len(chunks).
DocumentStructureChunker_chunk_text(lines) ==
    IF BlankLines(lines) THEN [res |-> "ok", out |-> <<>>, lost |-> <<>>]
    ELSE LET r == DocumentStructureChunker_loop(Numbered(lines), <<>>, <<>>, NoSection,
                                                <<>>, 1) IN
         IF Len(r.chunks) = 0 THEN [res |-> "ZeroDivisionError", out |-> <<>>, lost |-> r.lost]
         ELSE [res |-> "ok", out |-> r.chunks, lost |-> r.lost]

\* '\n\n' splits the text into paragraphs: the lengths of the paragraphs of a
\* text of lines, an empty line ending a paragraph.
RECURSIVE Paragraphs(_, _)
Paragraphs(lines, current) ==
    IF lines = <<>> THEN <<JoinedLen(current)>>
    ELSE IF Head(lines).len = 0 /\ current # <<>>
         THEN <<JoinedLen(current)>> \o Paragraphs(Tail(lines), <<>>)
         ELSE Paragraphs(Tail(lines), Append(current, Head(lines)))

\* HybridChunker.chunk_text(text, use_agentic) on a chunker with or without an
\* agentic chunker; by tells which chunker's list is returned.
HybridChunker_chunk_text(lines, use_agentic, agentic_chunker, response) ==
    LET agentic == AgenticChunker_chunk_text(Paragraphs(lines, <<>>), response)
        structure == DocumentStructureChunker_chunk_text(lines)
    IN IF use_agentic /\ agentic_chunker
       THEN [res |-> "ok", out |-> agentic, by |-> "agentic"]
       ELSE IF structure.res # "ok"
       THEN [res |-> structure.res, out |-> <<>>, by |-> "structure"]
       ELSE IF structure.out = <<>> /\ agentic_chunker
       THEN [res |-> "ok", out |-> agentic, by |-> "agentic"]
       ELSE [res |-> "ok", out |-> structure.out, by |-> "structure"]

\* AgenticChunker.chunk_text(text) on the chunker; the model answers with the
\* response awaiting in op.arg.
AgenticChunkText ==
    LET response == op.arg IN
    /\ op.name = "AgenticChunker"
    /\ op' = [Call("AgenticChunker.chunk_text", 0, Len(text),
                   response.raised
                   \/ \A i \in 1..Len(response.frags) : response.frags[i] <= agentic_parse_min)
                 EXCEPT !.arg = response]
    /\ res' = "ok"
    /\ out' = AgenticChunker_chunk_text(text, response)
    /\ UNCHANGED <<faissVars, storeVars, mongoVars, store_kind, chunk_dir, hybridVars,
                   buildVars>>

\* DocumentStructureChunker.chunk_text(text) on the chunker.
StructureChunkText ==
    LET r == DocumentStructureChunker_chunk_text(text) IN
    /\ op.name = "DocumentStructureChunker"
    /\ op' = Call("DocumentStructureChunker.chunk_text", 0, Len(text), FALSE)
    /\ res' = r.res
    /\ out' = r.out
    /\ invoked' = r.lost
    /\ UNCHANGED <<faissVars, storeVars, mongoVars, store_kind, chunk_dir, backend,
                   local_llm, gemini_model, stats, stage, text, n_calls, buildVars>>

\* HybridChunker.chunk_text(text, use_agentic) on a hybrid chunker over the
\* structure chunker.
HybridChunkText(use_agentic, agentic_chunker, response) ==
    LET r == HybridChunker_chunk_text(text, use_agentic, agentic_chunker, response) IN
    /\ op.name = "DocumentStructureChunker"
    /\ op' = [Call("HybridChunker.chunk_text", 0, Len(text), use_agentic /\ agentic_chunker)
                 EXCEPT !.arg = r.by]
    /\ res' = r.res
    /\ out' = r.out
    /\ UNCHANGED <<faissVars, storeVars, mongoVars, store_kind, chunk_dir, hybridVars,
                   buildVars>>

\* embed_query(text) on the service.
EmbedQuery(a_text, model_ok) ==
    LET r == EmbeddingService_embed_query(a_text, model_ok) IN
    /\ op' = [Call("embed_query", get_dimension, 1, ~model_ok) EXCEPT !.query = a_text]
    /\ res' = r.res
    /\ out' = r.out
    /\ UNCHANGED <<faissVars, storeVars, mongoVars, store_kind, chunk_dir, hybridVars,
                   buildVars>>

\* embed_documents(texts) on the service.
EmbedDocuments(texts, model_ok) ==
    LET r == EmbeddingService_embed_documents(texts, model_ok) IN
    /\ op' = [Call("embed_documents", get_dimension, Len(texts), ~model_ok)
                 EXCEPT !.arg = texts]
    /\ res' = r.res
    /\ out' = r.out
    /\ UNCHANGED <<faissVars, storeVars, mongoVars, store_kind, chunk_dir, hybridVars,
                   buildVars>>

\* The body of the scripts' batch loop up to add_vectors, on a batch with the
\* given contents: embed_documents(texts), then add_vectors(embeddings,
\* batch_chunks). An exception of either ends the step.
IngestBatch(texts, model_ok) ==
    LET e == EmbeddingService_embed_documents(texts, model_ok)
        r == FaissManager_add_vectors(dimension, index, total_vectors, e.out, Len(texts))
    IN /\ Len(index.vecs) + Len(texts) <= MaxVectors
       /\ index' = IF e.res = "ok" THEN r.index ELSE index
       /\ total_vectors' = IF e.res = "ok" THEN r.total_vectors ELSE total_vectors
       /\ op' = [Call("ingest_batch", get_dimension, Len(texts), ~model_ok)
                    EXCEPT !.arg = texts]
       /\ res' = IF e.res = "ok" THEN r.res ELSE e.res
       /\ out' = <<>>
       /\ UNCHANGED <<dimension, use_gpu, faiss_file, saved, storeVars, mongoVars, store_kind,
                      chunk_dir, hybridVars, buildVars>>

\* A store constructed on an empty storage directory.
InitOpenStore ==
    /\ IdleManager
    /\ NoChunker
    /\ op = Call("LocalJSONStorage", 0, 0, FALSE)
    /\ res = "ok"
    /\ out = <<>>

\* The calls on a store whose process stays up.
NextStore ==
    \/ StoreOpen
    \/ \E records \in StoreBatches : StoreInsertMany(records, "none")
    \/ \E doc_id \in {0, MaxDocs}, new_domain \in Domains :
          StoreUpdateOne(doc_id, [domain |-> new_domain])
    \/ \E indices \in OrdinalLists(Len(documents)) : StoreFindByIndices(indices)
    \/ StoreCount

SpecStore == InitOpenStore /\ [][NextStore]_vars

\* A store that is filled and then updated with any dictionary.
NextStorePatch ==
    \/ \E records \in StoreBatches : StoreInsertMany(records, "none")
    \/ \E doc_id \in 0..MaxDocs, update_data \in Patches : StoreUpdateOne(doc_id, update_data)

SpecStorePatch == InitOpenStore /\ [][NextStorePatch]_vars

\* Writers that may die inside _save_data, and the processes started after them.
NextStoreCrash ==
    \/ StoreOpen
    \/ \E records \in StoreBatches, crash \in {"none"} \cup CrashPoints :
          StoreInsertMany(records, crash)
    \/ \E doc_id \in {0, MaxDocs}, new_domain \in Domains :
          StoreUpdateOne(doc_id, [domain |-> new_domain])

SpecStoreCrash == InitOpenStore /\ [][NextStoreCrash]_vars

\* No hybrid chunker is in use.
NoHybrid ==
    /\ backend = "auto"
    /\ local_llm = FALSE
    /\ gemini_model = FALSE
    /\ stats = NoStats
    /\ stage = "idle"
    /\ invoked = <<>>
    /\ n_calls = 0

\* An AgenticChunker right after its constructor, the document it will be given
\* and the answer the model will give.
InitAgentic ==
    /\ IdleManager
    /\ NoHybrid
    /\ text \in InputTexts
    /\ \E response \in AgenticResponses :
          op = [Call("AgenticChunker", 0, 0, FALSE) EXCEPT !.arg = response]
    /\ res = "ok"
    /\ out = <<>>

SpecAgentic == InitAgentic /\ [][AgenticChunkText]_vars

\* A DocumentStructureChunker with the default sizes, and the text it will be
\* given.
InitStructure ==
    /\ IdleManager
    /\ NoHybrid
    /\ text \in StructureTexts
    /\ op = Call("DocumentStructureChunker", 0, 0, FALSE)
    /\ res = "ok"
    /\ out = <<>>

\* What the agentic chunker's model answers to a hybrid chunker.
HybridResponses ==
    {[raised |-> TRUE, frags |-> <<>>, paras |-> <<>>],
     [raised |-> FALSE, frags |-> <<agentic_parse_min + 1>>, paras |-> <<>>]}

NextStructure ==
    \/ StructureChunkText
    \/ \E use_agentic \in BOOLEAN, agentic_chunker \in BOOLEAN, response \in HybridResponses :
          HybridChunkText(use_agentic, agentic_chunker, response)

SpecStructure == InitStructure /\ [][NextStructure]_vars

\* The embedding service and a manager of its dimension, as the scripts create them.
NextEmbed ==
    \/ \E a_text \in Texts, model_ok \in BOOLEAN : EmbedQuery(a_text, model_ok)
    \/ \E texts \in TextLists, model_ok \in BOOLEAN : EmbedDocuments(texts, model_ok)
    \/ \E texts \in TextLists \ {<<>>}, model_ok \in BOOLEAN : IngestBatch(texts, model_ok)

SpecEmbed == InitRecommend /\ [][NextEmbed]_vars

NextBuild ==
    \/ LocalBuildStart(FALSE, FALSE)
    \/ LocalBuildBatch
    \/ LocalBuildInsert
    \/ \E conv_ok \in BOOLEAN : LocalBuildSave(conv_ok)
    \/ MongoBuildStart(FALSE, FALSE)
    \/ \E mongo_ok \in BOOLEAN : MongoBuildBatch(mongo_ok)
    \/ \E conv_ok \in BOOLEAN : MongoBuildSave(conv_ok)
    \/ \E use_local \in BOOLEAN : Lifespan(use_local, FALSE, FALSE, FALSE)
    \/ \E query \in Texts, top_k \in 1..MaxK, filter_domain \in Domains \cup {NoFilter} :
          Retrieve(query, top_k, filter_domain)

SpecBuild == InitBuild /\ [][NextBuild]_vars

\* Between two runs a chunk file is added to the directory load_chunks reads.
AddChunkFile(c) ==
    /\ Quiescent
    /\ Len(chunk_dir) < MaxChunks
    /\ chunk_dir' = Append(chunk_dir, c)
    /\ UNCHANGED <<faissVars, storeVars, mongoVars, store_kind, hybridVars, buildVars, op,
                   res, out>>

\* The builds, with or without a GPU, and the server on the local store, over a
\* chunk directory that grows between runs.
NextGrowing ==
    \/ \E want_gpu \in BOOLEAN : LocalBuildStart(want_gpu, TRUE)
    \/ LocalBuildBatch
    \/ LocalBuildInsert
    \/ \E conv_ok \in BOOLEAN : LocalBuildSave(conv_ok)
    \/ MongoBuildStart(FALSE, FALSE)
    \/ MongoBuildBatch(TRUE)
    \/ MongoBuildSave(TRUE)
    \/ Lifespan(TRUE, FALSE, FALSE, FALSE)
    \/ \E query \in Texts, top_k \in 1..MaxK : Retrieve(query, top_k, NoFilter)
    \/ \E c \in [content : Texts, domain : {"X"}] : AddChunkFile(c)

SpecGrowing == InitBuild /\ [][NextGrowing]_vars

\* The local build and the server on the local store only.
NextLocal ==
    \/ LocalBuildStart(FALSE, FALSE)
    \/ LocalBuildBatch
    \/ LocalBuildInsert
    \/ \E conv_ok \in BOOLEAN : LocalBuildSave(conv_ok)
    \/ Lifespan(TRUE, FALSE, FALSE, FALSE)
    \/ \E query \in Texts, top_k \in 1..MaxK, filter_domain \in Domains \cup {NoFilter} :
          Retrieve(query, top_k, filter_domain)

SpecLocal == InitBuild /\ [][NextLocal]_vars

\* The local build and reranked retrieval on the server over the local store.
NextRerank ==
    \/ LocalBuildStart(FALSE, FALSE)
    \/ LocalBuildBatch
    \/ LocalBuildInsert
    \/ \E conv_ok \in BOOLEAN : LocalBuildSave(conv_ok)
    \/ Lifespan(TRUE, FALSE, FALSE, FALSE)
    \/ \E query \in Texts, top_k \in 1..MaxK, initial_k \in 1..(MaxK + 1) :
          RetrieveWithRerank(query, top_k, initial_k, NoFilter)

SpecRerank == InitBuild /\ [][NextRerank]_vars

\* The corpora a served index may hold.
CorpusChunks == {[content |-> "a", domain |-> "X"], [content |-> "a", domain |-> "Y"],
                 [content |-> "b", domain |-> "Y"]}
Corpora == UNION {[1..n -> CorpusChunks] : n \in 1..MaxCorpus}

\* The server after a local build over a corpus on an empty storage directory
\* and the start-up that loaded it: chunk i has ordinal i in the index and
\* position i in the store.
InitServing ==
    \E raw \in Corpora :
        LET cs == load_chunks(raw)
            texts == [i \in 1..Len(cs) |-> cs[i].content]
            added == FaissManager_add_vectors(get_dimension, IndexHNSWFlat(get_dimension), 0,
                                              embed_documents(texts), Len(cs))
            st == LocalJSONStorage_insert_many(<<>>, <<>>, cs)
            files == LocalJSONStorage__save_data(st.documents, st.metadatas)
        IN /\ dimension = get_dimension
           /\ use_gpu = FALSE
           /\ index = added.index
           /\ total_vectors = added.total_vectors
           /\ faiss_file = FaissManager_save(FALSE, added.index, NoFile, TRUE).file
           /\ saved = NeverSaved
           /\ documents = st.documents
           /\ metadatas = st.metadatas
           /\ documents_file = files.documents_file
           /\ metadata_file = files.metadata_file
           /\ default_file = NoFile
           /\ collection = <<>>
           /\ store_kind = "local"
           /\ chunk_dir = raw
           /\ pc = "serving"
           /\ chunks = <<>>
           /\ batch_idx = 0
           /\ all_documents = <<>>
           /\ NoChunker
           /\ op = Call("load", 0, 0, FALSE)
           /\ res = "ok"
           /\ out = <<>>

NextServing ==
    \E query \in Texts, top_k \in 1..MaxK, filter_domain \in Domains \cup {NoFilter} :
        RetrieveLogged(query, top_k, filter_domain)

SpecServing == InitServing /\ [][NextServing]_vars

NextRecommend ==
    \E num_vectors \in Counts, memory_constraint \in BOOLEAN :
        Recommend(num_vectors, memory_constraint)

SpecRecommend == InitRecommend /\ [][NextRecommend]_vars

NextHybrid ==
    \/ \E t \in InputTexts : ChunkText(t)
    \/ \E response \in Responses : TryPrimary(response)
    \/ \E response \in Responses : TrySecondary(response)
    \/ FallbackNaive

\* chunk_text is inside self.local_llm(prompt, ...): the call carries no timeout
\* and the next statement runs when the backend answers or raises.
AwaitsLocal ==
    /\ stage = "TRY_PRIMARY"
    /\ (backend = "auto" /\ local_llm) \/ backend = "local"
    /\ local_llm

\* chunk_text is inside self.gemini_model.generate_content(prompt), called
\* without a timeout.
AwaitsGemini ==
    /\ stage = "TRY_SECONDARY"
    /\ (backend = "auto" /\ gemini_model) \/ backend = "gemini"
    /\ gemini_model

\* The code of chunk_text runs on by itself; a step that ends a backend call is
\* taken when the backend answers, and a backend may never do so.
SpecHybridBlocking ==
    /\ InitHybrid
    /\ [][NextHybrid]_vars
    /\ WF_vars(~AwaitsLocal /\ \E response \in Responses : TryPrimary(response))
    /\ WF_vars(~AwaitsGemini /\ \E response \in Responses : TrySecondary(response))
    /\ WF_vars(FallbackNaive)

\* A call that has started goes on: a backend answers or raises, and the code
\* between two backend calls runs.
SpecHybrid ==
    /\ InitHybrid
    /\ [][NextHybrid]_vars
    /\ WF_vars(\E response \in Responses : TryPrimary(response))
    /\ WF_vars(\E response \in Responses : TrySecondary(response))
    /\ WF_vars(FallbackNaive)

(***************************************************************************)
(* Properties                                                              *)
(***************************************************************************)

\* C1: after local build runs and reloads, whatever the storage directory held
\* when a run started, count() equals total_vectors and, for every ordinal i of
\* the index, position i of the content and of the fields sequence holds the chunk
\* whose vector was added i-th: its content embeds to that vector and its fields
\* are those of chunk i.
C1_AlignmentAfterLocalBuilds ==
    (pc \in {"built", "serving"} /\ store_kind = "local") =>
        /\ LocalJSONStorage_count(documents) = total_vectors
        /\ Len(metadatas) = Len(documents)
        /\ \A i \in 1..Len(index.vecs) :
              /\ i <= Len(documents)
              /\ embed_query(documents[i]) = index.vecs[i]
              /\ i <= Len(metadatas)
              /\ metadatas[i].chunk_id = i - 1

\* C2: add_vectors with rows whose dimension differs from the manager's dimension
\* raises, with the dimension error when the metadata count is right, and leaves
\* the index contents and total_vectors as they were.
C2_DimensionGuard ==
    [][(op'.name = "add_vectors" /\ op'.d # dimension) =>
          \A vectors \in [1..op'.n -> Vectors(op'.d)] :
             \A n_meta \in {Len(vectors), Len(vectors) + 1} :
                AddVectors(vectors, n_meta) =>
                   /\ res' # "ok"
                   /\ (n_meta = Len(vectors) => res' = "ValueError(dimension)")
                   /\ index' = index
                   /\ total_vectors' = total_vectors]_vars

\* A rejected add on a manager that holds vectors.
C2_Rejected ==
    /\ op.name = "add_vectors"
    /\ op.d # dimension
    /\ res = "ValueError(dimension)"
    /\ total_vectors > 0
    /\ Len(index.vecs) = total_vectors

\* C3: a successful add of n rows to an index holding N rows binds them to the
\* ordinals N..N+n-1 in input order, makes total_vectors N+n and leaves the row of
\* every ordinal below N as it was; no add, successful or not, rebinds an ordinal.
C3_OrdinalsAppendOnly ==
    [][op'.name = "add_vectors" =>
          \A vectors \in [1..op'.n -> Vectors(op'.d)] :
             \A n_meta \in {Len(vectors), Len(vectors) + 1} :
                AddVectors(vectors, n_meta) =>
                   LET N == Len(index.vecs)
                       n == Len(vectors)
                   IN /\ total_vectors = N
                      /\ Len(index'.vecs) >= N
                      /\ \A i \in 1..N : index'.vecs[i] = index.vecs[i]
                      /\ res' = "ok" =>
                            /\ Len(index'.vecs) = N + n
                            /\ total_vectors' = N + n
                            /\ \A j \in 1..n : index'.vecs[N + j] = vectors[j]]_vars

\* A second successful add, after which the index holds two different rows.
C3_AppendedAfterEarlier ==
    /\ op.name = "add_vectors"
    /\ res = "ok"
    /\ op.n < total_vectors
    /\ Len(index.vecs) = MaxVectors
    /\ \E i, j \in 1..Len(index.vecs) : index.vecs[i] # index.vecs[j]

\* C4: retrieve with top_k >= 1 returns at most top_k results and, with a domain
\* filter X, only results whose domain is X.
C4_TopKAndDomain ==
    (op.name = "retrieve" /\ res = "ok") =>
        /\ Len(out) <= op.n
        /\ op.arg # NoFilter => \A i \in 1..Len(out) : out[i].domain = op.arg

\* A filtered retrieve that returned top_k results from a store which also holds a
\* chunk of another domain, in the index as well.
C4_FilteredOverMixedStore ==
    /\ op.name = "retrieve"
    /\ op.arg = "X"
    /\ Len(out) = op.n
    /\ store_kind = "local"
    /\ Len(index.vecs) = Len(documents)
    /\ \E i \in 1..Len(metadatas) : metadatas[i].domain = "Y"
    /\ \E i \in 1..Len(metadatas) : metadatas[i].domain = "X"

\* C5: recommend_index_type returns one variant, that of the one row of the
\* selection table the count falls in; a boundary count falls in the row of the
\* larger corpus.
C5_SelectionTable ==
    LET Unbounded == -1
        rows == <<[from |-> 0, below |-> 10000, free |-> "flat", constrained |-> "flat"],
                  [from |-> 10000, below |-> 100000, free |-> "hnsw", constrained |-> "ivf"],
                  [from |-> 100000, below |-> 1000000, free |-> "ivf", constrained |-> "ivf_pq"],
                  [from |-> 1000000, below |-> Unbounded, free |-> "ivf_pq",
                   constrained |-> "ivf_pq"]>>
        Holds(r, n) == r.from <= n /\ (r.below = Unbounded \/ n < r.below)
    IN op.name = "recommend" =>
          /\ out \in IndexType
          /\ Cardinality({i \in 1..Len(rows) : Holds(rows[i], op.n)}) = 1
          /\ \A i \in 1..Len(rows) :
                Holds(rows[i], op.n) =>
                   out = IF op.flag THEN rows[i].constrained ELSE rows[i].free

\* The first boundary, without memory constraint: the row of the larger corpus.
C5_BoundaryInLargerRow ==
    /\ op.name = "recommend"
    /\ op.n = 10000
    /\ ~op.flag
    /\ out = "hnsw"

\* C6: a chunk_text call moves from TRY_PRIMARY to DONE on success and to
\* TRY_SECONDARY on failure, from TRY_SECONDARY to DONE on success and to
\* FALLBACK_NAIVE on failure, from FALLBACK_NAIVE to DONE; a backend that raises,
\* answers nothing parseable or is not loaded only sends the call to the next
\* stage; the call never raises, and it reaches DONE with a chunk list.
C6_ReachesDone ==
    /\ [][stage' # stage =>
             /\ <<stage, stage'>> \in
                   {<<"idle", "TRY_PRIMARY">>, <<"DONE", "TRY_PRIMARY">>, <<"idle", "DONE">>,
                    <<"TRY_PRIMARY", "DONE">>, <<"TRY_PRIMARY", "TRY_SECONDARY">>,
                    <<"TRY_SECONDARY", "DONE">>, <<"TRY_SECONDARY", "FALLBACK_NAIVE">>,
                    <<"FALLBACK_NAIVE", "DONE">>}
             /\ (stage \in {"TRY_PRIMARY", "TRY_SECONDARY"} /\ stage' = "DONE") =>
                   /\ invoked' # invoked
                   /\ invoked'[Len(invoked')].n > 0
                   /\ out' # <<>>
             /\ (stage \in {"TRY_PRIMARY", "TRY_SECONDARY"} /\ stage' # "DONE") =>
                   \/ invoked' = invoked
                   \/ invoked'[Len(invoked')].n = 0]_vars
    /\ [](stage # "RAISED" /\ res # "Exception")
    /\ [](stage = "DONE" =>
             /\ res = "ok"
             /\ DOMAIN out = 1..Len(out)
             /\ \A i \in 1..Len(out) : out[i].size > 0)
    /\ (stage \in {"TRY_PRIMARY", "TRY_SECONDARY", "FALLBACK_NAIVE"}) ~> (stage = "DONE")

\* A call that ended in the paragraph split after the local model raised and
\* Gemini answered without a parseable chunk.
C6_BothFailed ==
    /\ stage = "DONE"
    /\ res = "ok"
    /\ Len(invoked) = 3
    /\ invoked[1].backend = "local" /\ invoked[1].answer = "exception"
    /\ invoked[2].backend = "gemini" /\ invoked[2].answer = "text" /\ invoked[2].n = 0
    /\ invoked[3].backend = "none"
    /\ out # <<>>

\* C7: within a call the backends are invoked in the order local, Gemini,
\* paragraph split; each one only after every loaded backend before it was
\* invoked and returned no chunk; after a backend returned chunks nothing else is
\* invoked.
C7_ChainOrder ==
    LET Rank(name) == CASE name = "local" -> 1 [] name = "gemini" -> 2 [] name = "none" -> 3
        Before(j, name) == \E i \in 1..(j - 1) : invoked[i].backend = name
    IN /\ \A i, j \in 1..Len(invoked) :
             i < j => /\ Rank(invoked[i].backend) < Rank(invoked[j].backend)
                      /\ invoked[i].n = 0
       /\ \A j \in 1..Len(invoked) :
             /\ (invoked[j].backend \in {"gemini", "none"} /\ local_llm) => Before(j, "local")
             /\ (invoked[j].backend = "none" /\ gemini_model) => Before(j, "gemini")
             /\ (invoked[j].backend = "local") => local_llm
             /\ (invoked[j].backend = "gemini") => gemini_model

\* A call in AUTO mode with both backends loaded that ended at the local model's
\* chunks.
C7_StoppedAtFirstSuccess ==
    /\ stage = "DONE"
    /\ backend = "auto"
    /\ local_llm
    /\ gemini_model
    /\ Len(invoked) = 1
    /\ invoked[1].backend = "local"
    /\ invoked[1].n > 0
    /\ Len(out) = invoked[1].n

\* C8: the chunks a call returns all carry the tag of the backend that made them:
\* the last one invoked, "none" for the paragraph split; after a failed local
\* model and a successful Gemini every chunk is tagged gemini.
C8_TaggedByProducer ==
    (stage = "DONE" /\ invoked # <<>>) =>
        LET producer == invoked[Len(invoked)].backend IN
        /\ Len(out) = invoked[Len(invoked)].n
        /\ \A i \in 1..Len(out) : out[i].llm_backend = producer
        /\ (Len(invoked) = 2 /\ producer = "gemini") =>
              \A i \in 1..Len(out) : out[i].llm_backend # "local"

\* Gemini's chunks returned after the local model failed.
C8_SecondaryAfterPrimaryFailed ==
    /\ stage = "DONE"
    /\ Len(invoked) = 2
    /\ invoked[1].backend = "local" /\ invoked[1].n = 0
    /\ invoked[2].backend = "gemini" /\ invoked[2].n = MaxFrags
    /\ Len(out) = MaxFrags

\* C9: a successful load, into a manager of the dimension of the one that saved,
\* gives the total_vectors and the rows, ordinal by ordinal, the manager had at
\* the save, and every search the (distances, ordinals) it gave then.
C9_SaveLoadRoundTrip ==
    (op.name = "load" /\ res = "ok" /\ saved.valid /\ saved.dimension = dimension) =>
        LET before == [d |-> saved.d, vecs |-> saved.vecs, gpu |-> FALSE] IN
        /\ total_vectors = saved.total_vectors
        /\ index.vecs = saved.vecs
        /\ \A q \in Vectors(dimension) : \A k \in 1..MaxK :
              FaissManager_search(dimension, index, q, k)
                 = FaissManager_search(saved.dimension, before, q, k)

\* A load of a snapshot of two different rows.
C9_LoadedTwoRows ==
    /\ op.name = "load"
    /\ res = "ok"
    /\ saved.valid
    /\ saved.dimension = dimension
    /\ Len(index.vecs) = MaxVectors
    /\ \E i, j \in 1..Len(index.vecs) : index.vecs[i] # index.vecs[j]

\* C10: a construction or a load in which the GPU could not be acquired or the
\* index not transferred succeeds and leaves a CPU-resident index; on a
\* CPU-resident index save and load give what they give on a manager created
\* without GPU (add_vectors and search do not read use_gpu), so a valid add, a
\* search in the manager's dimension and a save of it succeed.
C10_GpuFailureNotFatal ==
    /\ (op.name \in {"construct", "load"} /\ op.flag) => (res = "ok" /\ ~index.gpu)
    /\ ~index.gpu =>
          /\ \A conv_ok \in BOOLEAN :
                /\ FaissManager_save(use_gpu, index, faiss_file, conv_ok)
                      = FaissManager_save(FALSE, index, faiss_file, conv_ok)
                /\ FaissManager_save(use_gpu, index, faiss_file, conv_ok).res = "ok"
          /\ \A gpu_ok \in BOOLEAN :
                LET with_flag == FaissManager_load(use_gpu, index, total_vectors,
                                                   faiss_file, gpu_ok)
                    without == FaissManager_load(FALSE, index, total_vectors,
                                                 faiss_file, gpu_ok)
                IN /\ with_flag.res = without.res
                   /\ with_flag.total_vectors = without.total_vectors
                   /\ with_flag.index.vecs = without.index.vecs
                   /\ faiss_file.exists => with_flag.res = "ok"
          /\ index.d = dimension =>
                /\ \A vectors \in Batches(dimension) :
                      FaissManager_add_vectors(dimension, index, total_vectors, vectors,
                                               Len(vectors)).res = "ok"
                /\ \A q \in Vectors(dimension) : \A k \in 1..MaxK :
                      FaissManager_search(dimension, index, q, k).res = "ok"
    /\ (op.name = "save" /\ ~index.gpu) => res = "ok"

\* A save that succeeded on a manager whose load could not transfer the index to
\* the GPU: use_gpu is still set, the index is CPU-resident.
C10_SavedAfterFailedTransfer ==
    /\ op.name = "save"
    /\ res = "ok"
    /\ use_gpu
    /\ ~index.gpu
    /\ total_vectors > 0

\* C11: a load when the snapshot file is missing raises FileNotFoundError and
\* leaves the index and total_vectors as they were; a search, and a retrieve,
\* whose query vector has another dimension than the manager's raises the
\* dimension error with no search run, and leaves the manager and the stores as
\* they were.
C11_ConfigurationErrorsRaised ==
    [][/\ (op'.name = "load" /\ ~faiss_file.exists) =>
             /\ res' = "FileNotFoundError"
             /\ index' = index
             /\ total_vectors' = total_vectors
       /\ (op'.name \in {"search", "retrieve"} /\ op'.d # dimension) =>
             /\ res' = "ValueError(dimension)"
             /\ out' = <<>>
             /\ UNCHANGED <<faissVars, storeVars, mongoVars>>]_vars

\* A load without snapshot file on a manager that holds vectors.
C11_LoadWithoutFile ==
    /\ op.name = "load"
    /\ res = "FileNotFoundError"
    /\ ~faiss_file.exists
    /\ total_vectors > 0
    /\ Len(index.vecs) = total_vectors

\* C12: a retrieve on an empty index, or one for which no ordinal the search
\* returned has a record in the metadata store (local: no position; MongoDB: no
\* document of that chunk_id), returns the empty list and raises nothing.
C12_EmptyNotAnError ==
    (op.name = "retrieve" /\ op.d = dimension /\ index.d = dimension) =>
        LET search_k == IF op.arg # NoFilter THEN op.n * 3 ELSE op.n
            slots == FaissManager_search(dimension, index, embed_query(op.query), search_k).out
            ordinals == {slots[i].ordinal : i \in 1..Len(slots)} \ {-1}
            HasRecord(o) == IF store_kind = "local"
                            THEN o < Len(documents)
                            ELSE \E j \in 1..Len(collection) : collection[j].chunk_id = o
        IN (index.vecs = <<>> \/ \A o \in ordinals : ~HasRecord(o)) =>
              (res = "ok" /\ out = <<>>)

\* A retrieve on a loaded index while the MongoDB collection holds nothing.
C12_NoRecordInMongo ==
    /\ op.name = "retrieve"
    /\ store_kind = "mongo"
    /\ Len(index.vecs) > 0
    /\ collection = <<>>
    /\ res = "ok"
    /\ out = <<>>

\* C13: insert_many only appends, in input order: the contents of the records
\* follow the contents held before and their fields follow the fields held
\* before, on a store of N records positions N..N+n-1 hold the n records,
\* count() is N+n and the ids returned are those of the n records in input order;
\* and no call on a live store removes or moves a stored record.
C13_AppendOnly ==
    [][/\ (op'.name = "insert_many" /\ res' = "ok") =>
             LET records == op'.arg
                 N == Len(documents)
                 n == Len(records)
             IN /\ Len(documents') = N + n
                /\ LocalJSONStorage_count(documents') = N + n
                /\ SubSeq(documents', 1, N) = documents
                /\ SubSeq(metadatas', 1, Len(metadatas)) = metadatas
                /\ Len(metadatas') = Len(metadatas) + n
                /\ \A i \in 1..n :
                      /\ documents'[N + i] = records[i].content
                      /\ metadatas'[Len(metadatas) + i].chunk_id = records[i].chunk_id
                      /\ metadatas'[Len(metadatas) + i].domain = records[i].domain
                      /\ metadatas'[Len(metadatas) + i].id = N + i - 1
                /\ out' = [i \in 1..n |-> N + i - 1]
       /\ (pc = "idle" /\ pc' = "idle") =>
             /\ Len(documents') >= Len(documents)
             /\ Len(metadatas') >= Len(metadatas)
             /\ \A i \in 1..Len(documents) : documents'[i] = documents[i]
             /\ \A i \in 1..Len(metadatas) :
                   /\ metadatas'[i].id = metadatas[i].id
                   /\ metadatas'[i].chunk_id = metadatas[i].chunk_id]_vars

\* Two records were inserted into a store that already held one.
C13_TwoAppendedAfterOne ==
    /\ op.name = "insert_many" /\ res = "ok"
    /\ op.n = 2
    /\ Len(documents) = 3
    /\ op.arg[1] # op.arg[2]
    /\ out = <<1, 2>>

\* C14: find_by_indices returns, in request order, the record at each requested
\* ordinal that lies in 0..count()-1, nothing for any other ordinal, raises
\* nothing and changes nothing in the store.
C14_PositionalLookup ==
    [][op'.name = "find_by_indices" =>
          LET InRange(o) == 0 <= o /\ o < Len(documents)
              hits == SelectSeq(op'.arg, InRange)
          IN /\ res' = "ok"
             /\ UNCHANGED storeVars
             /\ Len(out') = Len(hits)
             /\ \A j \in 1..Len(hits) :
                   /\ out'[j].content = documents[hits[j] + 1]
                   /\ hits[j] < Len(metadatas) =>
                         /\ out'[j].chunk_id = metadatas[hits[j] + 1].chunk_id
                         /\ out'[j].domain = metadatas[hits[j] + 1].domain]_vars

\* A lookup of a negative ordinal and then a stored one, on a store of one record.
C14_OutOfRangeSkipped ==
    /\ op.name = "find_by_indices"
    /\ op.arg = <<-1, 0>>
    /\ Len(documents) = 1
    /\ Len(out) = 1
    /\ out[1].content = documents[1]

\* C20: in every state of a live store, also one that _load_data rebuilt after a
\* writer died inside _save_data or from a directory holding one of the two
\* files, the content sequence and the fields sequence have the same length and
\* position i of both comes from the same record (the fields' id is doc_<i>).
C20_SequencesAligned ==
    pc = "idle" =>
        /\ Len(documents) = Len(metadatas)
        /\ \A i \in 1..Len(metadatas) : metadatas[i].id = i - 1

\* C15: embed_query and embed_documents raise nothing when the model call
\* fails: embed_query returns the zero vector of length get_dimension(),
\* embed_documents(texts) returns len(texts) such zero vectors, and the batch
\* step whose embedding failed still adds one vector per chunk of the batch.
C15_FailedEmbeddingIsZeros ==
    [][/\ op'.name \in {"embed_query", "embed_documents", "ingest_batch"} => res' = "ok"
       /\ (op'.name = "embed_query" /\ op'.flag) =>
             /\ Len(out') = get_dimension
             /\ \A i \in 1..Len(out') : out'[i] = 0
       /\ (op'.name = "embed_documents" /\ op'.flag) =>
             /\ Len(out') = Len(op'.arg)
             /\ \A j \in 1..Len(out') :
                   /\ Len(out'[j]) = get_dimension
                   /\ \A i \in 1..get_dimension : out'[j][i] = 0
       /\ (op'.name = "ingest_batch" /\ op'.flag) =>
             /\ total_vectors' = total_vectors + Len(op'.arg)
             /\ Len(index'.vecs) = Len(index.vecs) + Len(op'.arg)]_vars

\* A batch of two chunks was added although its embedding failed.
C15_BatchAddedAfterFailure ==
    /\ op.name = "ingest_batch" /\ op.flag
    /\ op.arg = <<"b", "b">>
    /\ res = "ok"
    /\ total_vectors = 2
    /\ index.vecs = <<Zeros(get_dimension), Zeros(get_dimension)>>

\* C16: every chunk a chunking strategy returns is no longer than the
\* strategy's maximum chunk size; for the structure-aware splitter, no chunk of
\* chunk_text is longer than max_chunk_size.
C16_MaxChunkSize ==
    op.name = "DocumentStructureChunker.chunk_text" =>
        \A i \in 1..Len(out) : out[i].size <= max_chunk_size

\* C17: AgenticChunker.chunk_text raises nothing, and when the model call failed
\* or its answer gave no chunk after a marker, the chunks returned are the
\* paragraphs of the document longer than the fallback minimum, in document
\* order.
C17_FallbackSplitsDocument ==
    op.name = "AgenticChunker.chunk_text" =>
        /\ res = "ok"
        /\ op.flag =>
              LET Long(i) == text[i] > agentic_fallback_min
                  kept == SelectSeq([i \in 1..Len(text) |-> i], Long)
              IN /\ Len(out) = Len(kept)
                 /\ \A j \in 1..Len(kept) :
                       /\ out[j].content = [of |-> "document", at |-> kept[j]]
                       /\ out[j].size = text[kept[j]]

\* C18: retrieve_with_rerank returns at most top_k results, each one of the pool
\* retrieve(query, initial_k) gave, each with a rerank score that is the dot
\* product of the query's embedding and the embedding of its own content, in
\* order of non-increasing rerank score, whatever the size of the pool.
C18_RerankContract ==
    (op.name = "retrieve_with_rerank" /\ res = "ok") =>
        LET pool == RAGRetriever_retrieve(metadata_store, dimension, index, op.query,
                                          op.arg, NoFilter).out
        IN /\ Len(out) <= op.n
           /\ \A i \in 1..Len(out) :
                 /\ \E j \in 1..Len(pool) :
                       /\ pool[j].chunk_id = out[i].chunk_id
                       /\ pool[j].content = out[i].content
                       /\ pool[j].distance = out[i].distance
                 /\ "rerank_score" \in DOMAIN out[i]
                 /\ out[i].rerank_score = Dot(embed_query(op.query), embed_query(out[i].content))
           /\ \A i \in 1..(Len(out) - 1) : out[i].rerank_score >= out[i + 1].rerank_score

\* C19: the statistics account for the attempts made: a step that invokes a
\* backend's model adds one to exactly one of that backend's success and failure
\* counters and leaves the other backend's counters alone; a step that invokes no
\* model changes no counter; a success ends the call, so a call counts at most
\* one success; total_cost never decreases and grows only in a step in which
\* Gemini succeeded; and no counter changes during a call on a blank text.
C19_StatsAccountForAttempts ==
    /\ [][/\ (Len(invoked') = Len(invoked) + 1 /\ invoked'[Len(invoked')].backend = "local") =>
               /\ stats'.local_success >= stats.local_success
               /\ stats'.local_failure >= stats.local_failure
               /\ stats'.local_success + stats'.local_failure
                     = stats.local_success + stats.local_failure + 1
               /\ stats'.gemini_success = stats.gemini_success
               /\ stats'.gemini_failure = stats.gemini_failure
               /\ stats'.total_cost = stats.total_cost
          /\ (Len(invoked') = Len(invoked) + 1 /\ invoked'[Len(invoked')].backend = "gemini") =>
               /\ stats'.gemini_success >= stats.gemini_success
               /\ stats'.gemini_failure >= stats.gemini_failure
               /\ stats'.gemini_success + stats'.gemini_failure
                     = stats.gemini_success + stats.gemini_failure + 1
               /\ stats'.local_success = stats.local_success
               /\ stats'.local_failure = stats.local_failure
               /\ (stats'.total_cost > stats.total_cost) =>
                     stats'.gemini_success = stats.gemini_success + 1
          /\ ~(/\ Len(invoked') = Len(invoked) + 1
               /\ invoked'[Len(invoked')].backend \in {"local", "gemini"}) =>
               stats' = stats
          /\ (\/ stats'.local_success > stats.local_success
              \/ stats'.gemini_success > stats.gemini_success) =>
               /\ stage' = "DONE"
               /\ invoked'[Len(invoked')].n > 0
          /\ stats'.total_cost >= stats.total_cost
          /\ (text' = text /\ \A i \in 1..Len(text) : text[i] = 0) => stats' = stats
          /\ (op'.name = "chunk_text" /\ op' # op /\ \A i \in 1..Len(text') : text'[i] = 0) =>
               /\ stats' = stats
               /\ stage' = "DONE"]_vars
    /\ [](Cardinality({i \in 1..Len(invoked) :
                         invoked[i].backend # "none" /\ invoked[i].n > 0}) <= 1)

\* Two calls were made: the first failed on the local model and succeeded on
\* Gemini, the second was given a blank text.
C19_CountedThenBlank ==
    /\ n_calls = 2
    /\ stage = "DONE"
    /\ text # <<>> /\ \A i \in 1..Len(text) : text[i] = 0
    /\ stats.local_failure = 1
    /\ stats.local_success = 0
    /\ stats.gemini_success = 1
    /\ stats.gemini_failure = 0
    /\ stats.total_cost > 0

\* C21: in a build run every batch is embedded, added to the index and inserted
\* into the metadata store before the next one starts: after each completed
\* batch the store's record count equals total_vectors, and the index is never
\* more than one batch ahead of the store, in the local and in the MongoDB build.
C21_BatchByBatch ==
    /\ (pc \in {"local_batches", "local_insert"} /\ batch_idx >= 1) =>
          /\ total_vectors - LocalJSONStorage_count(documents) <= batch_size
          /\ LocalJSONStorage_count(documents) = total_vectors
    /\ (pc \in {"mongo_batches", "mongo_save"} /\ batch_idx >= 1) =>
          /\ total_vectors - Len(collection) <= batch_size
          /\ Len(collection) = total_vectors

\* C22: a retrieve call embeds the query once and searches the index once, for
\* 3 * top_k neighbours when a domain filter is set and for top_k otherwise;
\* every result comes from a slot of that one search, so that with a filter the
\* result can hold fewer than top_k entries although more chunks of the domain
\* are in the index.
C22_OneSearchPerRetrieve ==
    (op.name = "retrieve" /\ res = "ok") =>
        LET search_k == IF op.arg # NoFilter THEN 3 * op.n ELSE op.n
            slots == Index_search_slots(index.vecs, embed_query(op.query), search_k,
                                        0..(Len(index.vecs) - 1))
        IN /\ Cardinality({i \in 1..Len(invoked) : invoked[i].fn = "embed_query"}) = 1
           /\ Cardinality({i \in 1..Len(invoked) : invoked[i].fn = "search"}) = 1
           /\ \A i \in 1..Len(invoked) : invoked[i].fn = "search" => invoked[i].k = search_k
           /\ Len(out) <= op.n
           /\ \A i \in 1..Len(out) :
                 \E j \in 1..Len(slots) :
                     /\ slots[j].ordinal = out[i].chunk_id
                     /\ slots[j].distance = out[i].distance

\* A filtered retrieve that returned nothing while a chunk of the domain sits in
\* the index beyond the neighbours searched.
C22_SparseFilterFallsShort ==
    /\ op.name = "retrieve" /\ res = "ok"
    /\ op.arg = "X" /\ op.n = 1
    /\ out = <<>>
    /\ Len(index.vecs) = 4
    /\ Len(metadatas) = 4
    /\ metadatas[4].domain = "X"

\* C23: the backend calls of the hybrid chunker are bounded by a timeout, so a
\* chunk_text call that has started returns even when a backend never answers.
C23_ChunkTextReturns ==
    (stage \in {"TRY_PRIMARY", "TRY_SECONDARY", "FALLBACK_NAIVE"})
        ~> (stage \in {"DONE", "RAISED"})

\* C24: DocumentStructureChunker.chunk_text returns a list and raises nothing
\* for every text; a text that is not blank and whose contents are all under
\* the minimum size gives the empty list, and HybridChunker.chunk_text then
\* hands the text to the agentic chunker when it has one.
C24_StructureNeverRaises ==
    /\ op.name = "DocumentStructureChunker.chunk_text" => res = "ok"
    /\ (op.name = "HybridChunker.chunk_text" /\ ~op.flag) =>
          /\ res = "ok"
          /\ DocumentStructureChunker_loop(Numbered(text), <<>>, <<>>, NoSection, <<>>,
                                           1).chunks = <<>>
                => (op.arg = "agentic" \/ out = <<>>)

\* C25: in the list DocumentStructureChunker.chunk_text returns, every line of
\* the text that is no page marker is in exactly one chunk, the chunks following
\* the order of the text, unless the line was part of a content dropped for
\* being under the minimum size; no line is in two chunks. Empty lines, which
\* strip() may take off a content, are left out of account.
C25_EveryLineInOneChunk ==
    (op.name = "DocumentStructureChunker.chunk_text" /\ res = "ok") =>
        LET Holds(c, at) == {j \in 1..Len(out[c].lines) : out[c].lines[j] = at}
            InChunks(at) == {c \in 1..Len(out) : Holds(c, at) # {}}
            Dropped(at) == \E j \in 1..Len(invoked) : invoked[j] = at
        IN /\ \A at \in 1..Len(text) :
                 /\ Cardinality(InChunks(at)) <= 1
                 /\ \A c \in InChunks(at) : Cardinality(Holds(c, at)) = 1
                 /\ text[at].kind = "page" => InChunks(at) = {}
                 /\ (text[at].kind # "page" /\ text[at].len > 0 /\ ~Dropped(at))
                       => InChunks(at) # {}
           /\ \A c \in 1..Len(out) :
                 /\ \A j \in 1..(Len(out[c].lines) - 1) : out[c].lines[j] < out[c].lines[j + 1]
                 /\ c < Len(out) =>
                       out[c].lines[Len(out[c].lines)] < out[c + 1].lines[1]

\* C26: in the list DocumentStructureChunker.chunk_text returns, a section
\* header is never inside a chunk but only its first line; a chunk's section is
\* the last section header at or before the chunk's first line, and Unknown when
\* there is none; the ids are 1, 2, ... in the order of the text.
C26_SectionBoundaries ==
    (op.name = "DocumentStructureChunker.chunk_text" /\ res = "ok") =>
        \A c \in 1..Len(out) :
            LET first == out[c].lines[1]
                headers == {at \in 1..first : text[at].kind = "section"}
            IN /\ out[c].id = c
               /\ \A j \in 2..Len(out[c].lines) : text[out[c].lines[j]].kind # "section"
               /\ IF headers = {}
                     THEN out[c].section = NoSection
                     ELSE /\ out[c].section.name = "header"
                          /\ out[c].section.at \in headers
                          /\ \A at \in headers : at <= out[c].section.at
               /\ c < Len(out) => out[c].lines[1] < out[c + 1].lines[1]

\* A text with a section header in its middle: two chunks, the first without a
\* section and the second under the header it starts with.
C26_HeaderSplitsText ==
    /\ op.name = "DocumentStructureChunker.chunk_text" /\ res = "ok"
    /\ Len(text) = 3
    /\ text[2].kind = "section"
    /\ Len(out) = 2
    /\ out[1].section = NoSection
    /\ out[2].section.at = 2
    /\ out[2].lines = <<2, 3>>

\* C28: whatever constructions, add_vectors, saves and loads were made and
\* wherever the GPU failed, use_gpu is true only when the index the manager holds
\* is on the GPU.
C28_GpuFlagMatchesIndex == use_gpu => index.gpu

\* C29: after a load that succeeded the manager's dimension is the one of the
\* index it holds; a snapshot of another dimension is not installed.
C29_LoadKeepsDimension ==
    (op.name = "load" /\ res = "ok") => index.d = dimension

\* C30: update_one(id, patch) changes the fields of the one record with that id
\* and nothing else: the count, the contents, the order and the other records'
\* fields stay, and the ids stay unique; when no record has the id it returns
\* False and neither the store nor its files change.
C30_UpdateOneFrame ==
    [][op'.name = "update_one" =>
          LET Unique(metas) ==
                  \A i, j \in 1..Len(metas) : metas[i].id = metas[j].id => i = j
              changed == {i \in 1..Len(metadatas) : metadatas'[i] # metadatas[i]}
          IN /\ documents' = documents
             /\ Len(metadatas') = Len(metadatas)
             /\ LocalJSONStorage_count(documents') = LocalJSONStorage_count(documents)
             /\ \A i \in changed : metadatas[i].id = op'.n
             /\ Cardinality(changed) <= 1
             /\ Unique(metadatas) => Unique(metadatas')
             /\ ~op'.flag =>
                   /\ metadatas' = metadatas
                   /\ documents_file' = documents_file
                   /\ metadata_file' = metadata_file]_vars

\* C27: every result of retrieve carries the distance of its own chunk: it comes
\* from a neighbour the search returned, with that neighbour's distance and
\* score, and with the content and fields of the record at the neighbour's
\* ordinal (local store) or with its chunk_id (MongoDB); so too when the store
\* has no record for some of the ordinals returned.
C27_OwnDistance ==
    (op.name = "retrieve" /\ res = "ok") =>
        LET search_k == IF op.arg # NoFilter THEN 3 * op.n ELSE op.n
            slots == Index_search_slots(index.vecs, embed_query(op.query), search_k,
                                        0..(Len(index.vecs) - 1))
            Own(r, slot) ==
                /\ slot.ordinal >= 0
                /\ r.distance = slot.distance
                /\ r.score = <<1, 1 + slot.distance>>
                /\ IF store_kind = "local"
                      THEN /\ slot.ordinal < Len(documents)
                           /\ r.content = documents[slot.ordinal + 1]
                           /\ slot.ordinal < Len(metadatas) =>
                                 /\ r.chunk_id = metadatas[slot.ordinal + 1].chunk_id
                                 /\ r.domain = metadatas[slot.ordinal + 1].domain
                      ELSE /\ r.chunk_id = slot.ordinal
                           /\ \E j \in 1..Len(collection) :
                                 /\ collection[j].chunk_id = slot.ordinal
                                 /\ collection[j].content = r.content
                                 /\ collection[j].domain = r.domain
        IN \A i \in 1..Len(out) : \E j \in 1..Len(slots) : Own(out[i], slots[j])

====
